---- MODULE Spec2Model ----
(***************************************************************************)
(* GoDB storage core: one heap file, its buffer pool and its write-ahead  *)
(* log.  Pages are slotted arrays of tuples; a tuple is modelled by the    *)
(* value of its fields and by the object that carries it.  The data file  *)
(* and the log file survive a crash, the buffer pool, the heap-file       *)
(* object and the log's append buffer do not.  The operators that run on  *)
(* top of the heap file (Insert, Delete, OrderBy) follow.                  *)
(***************************************************************************)
EXTENDS Integers, Sequences, FiniteSets, TLC

\* ---------------------------------------------------------------- bounds
NumSlots == 1        \* slots per page of the heap file, (PageSize - 8) / bytesPerTuple
MaxFilePages == 2    \* the heap file grows to at most this many pages
maxPages == 1        \* capacity given to NewBufferPool
MaxTid == 2          \* transaction ids are 1..MaxTid
MaxLog == 6          \* records a caller keeping the WAL rules appends to the log
MaxLogAny == 2       \* records any other caller appends to the log
MaxObj == 2          \* tuple objects the caller holds are 1..MaxObj
PageSlots == 2       \* slots of the pages tested on their own

\* ------------------------------------------------------ program constants
PageSize == 4096
AbortRecord == 0
CommitRecord == 1
UpdateRecord == 2
BeginRecord == 3

Nil == [fields |-> 0, obj |-> -1]   \* an empty slot (a nil *Tuple): no fields, no object
NoTid == -1                      \* the tid FlushAllPages passes to setDirty
Tids == 1..MaxTid
PageNos == 0..(MaxFilePages - 1)

VARIABLES
    pages,          \* BufferPool.pages: page number -> cached heapPage
    logAttached,    \* BufferPool.logFile # nil
    tdSlots,        \* HeapFile.td as the number of slots its tuples leave on a page
    numPages,       \* HeapFile.numPages
    lastEmptyPage,  \* HeapFile.lastEmptyPage
    disk,           \* the backing file: sequence of page images, page p at p+1
    logDisk,        \* the log file on disk: sequence of records
    logBuf,         \* LogFile.buf: records appended and not yet forced
    offset,         \* LogFile.offset: the cursor, in bytes
    before,         \* caller's before-images: page -> [tid, img] of changes not yet logged
    last,           \* the buffer-pool call that produced this state and its result
    bpMaxPages,     \* BufferPool.maxPages
    objRid,         \* Tuple.Rid of each tuple object the caller holds
    hist,           \* what the caller has done so far: inserts, pulls, tuples pulled
    iter            \* the operator iterator under test: its inputs and its state

vars == <<pages, logAttached, tdSlots, numPages, lastEmptyPage, disk, logDisk, logBuf,
          offset, before, last, bpMaxPages, objRid, hist, iter>>

\* what the storage calls leave alone
opVars == <<bpMaxPages, objRid, hist, iter>>

\* ------------------------------------------------------------ map helpers
\* delete(m, k) on a Go map
Remove(m, k) == [x \in (DOMAIN m) \ {k} |-> m[x]]

Restrict(m, S) == [x \in (DOMAIN m) \cap S |-> m[x]]

Put(m, k, v) == [x \in (DOMAIN m) \cup {k} |-> IF x = k THEN v ELSE m[x]]

EmptyMap == [x \in {} |-> 0]

\* -------------------------------------------------------------- heap page
\* a *Tuple: its Fields, and the object it is: obj 0 is a tuple the page made
\* itself when it was read from bytes (no one else holds it, its Rid is the
\* slot it was read into), obj > 0 is a tuple object of the caller, whose Rid
\* field is objRid[obj]
Tuple(fields, obj) == [fields |-> fields, obj |-> obj]

newHeapPage(n) == [numSlots |-> n, numUsed |-> 0, tuples |-> [i \in 0..(n - 1) |-> Nil],
                   dirty |-> FALSE, dirtyTid |-> NoTid]

getNumEmptySlots(h) == h.numSlots - h.numUsed

FreeSlots(h) == {i \in 0..(h.numSlots - 1) : h.tuples[i] = Nil}

\* heapPage.insertTuple with the loop running from the last slot down
PageInsertSlotLast(h) ==
    IF FreeSlots(h) = {} THEN -1
    ELSE CHOOSE i \in FreeSlots(h) : \A j \in FreeSlots(h) : i >= j

\* heapPage.insertTuple: the lowest empty slot, or PageFull
PageInsertSlot(h) ==
    IF FreeSlots(h) = {} THEN -1
    ELSE CHOOSE i \in FreeSlots(h) : \A j \in FreeSlots(h) : i <= j

PageInsertTuple(h, v) ==
    LET i == PageInsertSlot(h) IN
    IF i = -1 THEN [page |-> h, err |-> "PageFull"]
    ELSE [page |-> [h EXCEPT !.tuples[i] = v, !.numUsed = @ + 1], err |-> "ok"]

\* heapPage.deleteTuple without the numUsed-- of line 121
PageDeleteTupleKeepCount(h, slot) ==
    IF slot < 0 \/ slot >= h.numSlots THEN [page |-> h, err |-> "TupleNotFound"]
    ELSE IF h.tuples[slot] = Nil THEN [page |-> h, err |-> "TupleNotFound"]
    ELSE [page |-> [h EXCEPT !.tuples[slot] = Nil], err |-> "ok"]

\* heapPage.deleteTuple
PageDeleteTuple(h, slot) ==
    IF slot < 0 \/ slot >= h.numSlots THEN [page |-> h, err |-> "TupleNotFound"]
    ELSE IF h.tuples[slot] = Nil THEN [page |-> h, err |-> "TupleNotFound"]
    ELSE [page |-> [h EXCEPT !.tuples[slot] = Nil, !.numUsed = @ - 1], err |-> "ok"]

setDirty(h, tid, d) == [h EXCEPT !.dirty = d, !.dirtyTid = tid]

\* the occupied slots i, i+1, ... of a page, in slot order
RECURSIVE Dense(_, _)
Dense(h, i) ==
    IF i >= h.numSlots THEN <<>>
    ELSE (IF h.tuples[i] = Nil THEN <<>> ELSE <<h.tuples[i].fields>>) \o Dense(h, i + 1)

\* heapPage.toBuffer: the header (numSlots, numUsed), then the occupied slots, packed
toBuffer(h) == [numSlots |-> h.numSlots, numUsed |-> h.numUsed, tuples |-> Dense(h, 0)]

\* heapPage.initFromBuffer filling the slots from the last one down
initFromBufferFromEnd(img) ==
    [numSlots |-> img.numSlots, numUsed |-> img.numUsed,
     tuples |-> [i \in 0..(img.numSlots - 1) |->
                    IF img.numSlots - i <= img.numUsed /\ img.numSlots - i <= Len(img.tuples)
                    THEN Tuple(img.tuples[img.numSlots - i], 0) ELSE Nil],
     dirty |-> FALSE, dirtyTid |-> NoTid]

\* heapPage.initFromBuffer: the first numUsed tuples go to slots 0..numUsed-1
initFromBuffer(img) ==
    [numSlots |-> img.numSlots, numUsed |-> img.numUsed,
     tuples |-> [i \in 0..(img.numSlots - 1) |->
                    IF i < img.numUsed /\ i < Len(img.tuples)
                    THEN Tuple(img.tuples[i + 1], 0) ELSE Nil],
     dirty |-> FALSE, dirtyTid |-> NoTid]

\* a page of zero bytes, as WriteAt leaves in a gap: its header reads 0, 0
ZeroImage == [numSlots |-> 0, numUsed |-> 0, tuples |-> <<>>]

\* -------------------------------------------------------------- heap file
\* HeapFile.flushPage: WriteAt(image, pageNo * PageSize)
WriteAt(dsk, p, img) ==
    IF p < Len(dsk) THEN [dsk EXCEPT ![p + 1] = img]
    ELSE dsk \o [i \in 1..(p - Len(dsk)) |-> ZeroImage] \o <<img>>

flushPage(dsk, p, h) == WriteAt(dsk, p, toBuffer(h))

\* ------------------------------------------------------------ buffer pool
\* evictPage taking its victim among all cached pages, dirty or not
evictPageAnyVictim(pgs) ==
    IF Cardinality(DOMAIN pgs) < bpMaxPages THEN {[pages |-> pgs, err |-> "ok"]}
    ELSE IF DOMAIN pgs = {} THEN {[pages |-> pgs, err |-> "BufferPoolFull"]}
    ELSE {[pages |-> Remove(pgs, k), err |-> "ok"] : k \in DOMAIN pgs}

\* evictPage with the capacity test off by one: a full pool counts as having room
evictPageOffByOne(pgs) ==
    IF Cardinality(DOMAIN pgs) <= bpMaxPages THEN {[pages |-> pgs, err |-> "ok"]}
    ELSE LET clean == {k \in DOMAIN pgs : ~pgs[k].dirty} IN
         IF clean = {} THEN {[pages |-> pgs, err |-> "BufferPoolFull"]}
         ELSE {[pages |-> Remove(pgs, k), err |-> "ok"] : k \in clean}

\* BufferPool.evictPage: every result the map's iteration order allows
evictPage(pgs) ==
    IF Cardinality(DOMAIN pgs) < bpMaxPages THEN {[pages |-> pgs, err |-> "ok"]}
    ELSE LET clean == {k \in DOMAIN pgs : ~pgs[k].dirty} IN
         IF clean = {} THEN {[pages |-> pgs, err |-> "BufferPoolFull"]}
         ELSE {[pages |-> Remove(pgs, k), err |-> "ok"] : k \in clean}

\* HeapFile.readPage: ReadAt fails past the end of the file
readPage(dsk, p) ==
    IF p < 0 \/ p >= Len(dsk) THEN [page |-> newHeapPage(0), err |-> "EOF"]
    ELSE [page |-> initFromBuffer(dsk[p + 1]), err |-> "ok"]

\* BufferPool.GetPage: the set of its possible results
GetPage(pgs, dsk, p) ==
    IF p \in DOMAIN pgs THEN {[pages |-> pgs, err |-> "ok"]}
    ELSE UNION {
        IF e.err # "ok" THEN {e}
        ELSE LET r == readPage(dsk, p) IN
             IF r.err # "ok" THEN {[pages |-> e.pages, err |-> r.err]}
             ELSE {[pages |-> Put(e.pages, p, r.page), err |-> "ok"]}
        : e \in evictPage(pgs)}

\* ---------------------------------------------- heap file: insert, delete
Outcome(pgs, dsk, np, hint, err, pg) ==
    [pages |-> pgs, disk |-> dsk, numPages |-> np, lastEmptyPage |-> hint,
     err |-> err, pg |-> pg]

\* insertTuple, lines 235-258, leaving lastEmptyPage unset
InsertNewPageNoHint(pgs, dsk, np, n, tid, v) ==
    LET dsk2 == flushPage(dsk, np, newHeapPage(n)) IN
    {IF g.err # "ok" THEN Outcome(g.pages, dsk2, np + 1, -1, g.err, -1)
     ELSE LET r == PageInsertTuple(g.pages[np], v) IN
          IF r.err # "ok" THEN Outcome(g.pages, dsk2, np + 1, -1, r.err, -1)
          ELSE Outcome(Put(g.pages, np, setDirty(r.page, tid, TRUE)),
                       dsk2, np + 1, -1, "ok", np)
     : g \in GetPage(pgs, dsk2, np)}

\* insertTuple, lines 235-258: no page took the tuple, allocate page numPages
InsertNewPage(pgs, dsk, np, n, tid, v) ==
    LET dsk2 == flushPage(dsk, np, newHeapPage(n)) IN
    {IF g.err # "ok" THEN Outcome(g.pages, dsk2, np + 1, np, g.err, -1)
     ELSE LET r == PageInsertTuple(g.pages[np], v) IN
          IF r.err # "ok" THEN Outcome(g.pages, dsk2, np + 1, np, r.err, -1)
          ELSE Outcome(Put(g.pages, np, setDirty(r.page, tid, TRUE)),
                       dsk2, np + 1, np, "ok", np)
     : g \in GetPage(pgs, dsk2, np)}

\* insertTuple, lines 210-233: probe pages p..numPages-1 for a free slot
RECURSIVE InsertProbe(_, _, _, _, _, _, _, _)
InsertProbe(p, pgs, dsk, np, hint, n, tid, v) ==
    IF p >= np THEN InsertNewPage(pgs, dsk, np, n, tid, v)
    ELSE UNION {
        IF g.err # "ok" THEN {Outcome(g.pages, dsk, np, hint, g.err, -1)}
        ELSE IF getNumEmptySlots(g.pages[p]) = 0
             THEN InsertProbe(p + 1, g.pages, dsk, np, hint, n, tid, v)
        ELSE LET r == PageInsertTuple(g.pages[p], v) IN
             IF r.err # "ok" THEN InsertProbe(p + 1, g.pages, dsk, np, hint, n, tid, v)
             ELSE {Outcome(Put(g.pages, p, setDirty(r.page, tid, TRUE)),
                           dsk, np, p, "ok", p)}
        : g \in GetPage(pgs, dsk, p)}

\* HeapFile.insertTuple
insertTuple(pgs, dsk, np, hint, n, tid, v) ==
    InsertProbe(IF hint = -1 THEN 0 ELSE hint, pgs, dsk, np, hint, n, tid, v)

\* HeapFile.deleteTuple for the rid {pageNo p, slotNo s}
deleteTuple(pgs, dsk, np, hint, tid, p, s) ==
    IF p < 0 \/ p >= np THEN {Outcome(pgs, dsk, np, hint, "TupleNotFound", -1)}
    ELSE {IF g.err # "ok" THEN Outcome(g.pages, dsk, np, hint, g.err, -1)
          ELSE LET hp == setDirty(g.pages[p], tid, TRUE)
                   r == PageDeleteTuple(hp, s) IN
               IF r.err # "ok" THEN Outcome(Put(g.pages, p, hp), dsk, np, hint, r.err, -1)
               ELSE Outcome(Put(g.pages, p, r.page), dsk, np,
                            IF p < hint THEN p ELSE hint, "ok", p)
          : g \in GetPage(pgs, dsk, p)}

\* ------------------------------------------------------------------- log
Rec(typ, tid, pg, b, a) == [typ |-> typ, tid |-> tid, pg |-> pg, before |-> b, after |-> a]

Plain(typ, tid) == Rec(typ, tid, 0, ZeroImage, ZeroImage)

\* bytes of a record: type, tid, body, trailing start offset
RecSize(r) == 1 + 4 + (IF r.typ = UpdateRecord THEN 2 * (4 + 4 + PageSize) ELSE 0) + 8

RECURSIVE Bytes(_)
Bytes(recs) == IF recs = <<>> THEN 0 ELSE RecSize(Head(recs)) + Bytes(Tail(recs))

\* LogFile.Force: the buffer goes to the file at the file position
Force(ld, lb) == ld \o lb

AllRecs == logDisk \o logBuf

InLog(recs, typ, tid) == \E i \in 1..Len(recs) : recs[i].typ = typ /\ recs[i].tid = tid

\* -------------------------------------------------------------- recovery
\* Recover's forward pass on one record (lines 68-87), with the Abort case
\* sharing the Commit case's body
RedoRecordAbortClears(st, r) ==
    IF r.typ = BeginRecord THEN [st EXCEPT !.losers = @ \cup {r.tid}]
    ELSE IF r.typ = AbortRecord \/ r.typ = CommitRecord
         THEN [st EXCEPT !.losers = @ \ {r.tid}]
    ELSE [st EXCEPT !.pages = Remove(@, r.pg),
                    !.disk = flushPage(@, r.pg, initFromBuffer(r.after))]

\* Recover's forward pass on one record (lines 68-87): the Abort case is empty
RedoRecord(st, r) ==
    IF r.typ = BeginRecord THEN [st EXCEPT !.losers = @ \cup {r.tid}]
    ELSE IF r.typ = AbortRecord THEN st
    ELSE IF r.typ = CommitRecord THEN [st EXCEPT !.losers = @ \ {r.tid}]
    ELSE [st EXCEPT !.pages = Remove(@, r.pg),
                    !.disk = flushPage(@, r.pg, initFromBuffer(r.after))]

RECURSIVE ForwardPass(_, _, _)
ForwardPass(recs, i, st) ==
    IF i > Len(recs) THEN st
    ELSE ForwardPass(recs, i + 1, RedoRecord(st, recs[i]))

\* Recover's reverse pass on one record (lines 101-129)
UndoRecord(st, r) ==
    IF r.tid \notin st.losers THEN st
    ELSE IF r.typ = UpdateRecord
         THEN [st EXCEPT !.pages = Remove(@, r.pg),
                         !.disk = flushPage(@, r.pg, initFromBuffer(r.before))]
    ELSE IF r.typ = BeginRecord
         THEN [st EXCEPT !.aborts = Append(@, Plain(AbortRecord, r.tid)),
                         !.losers = @ \ {r.tid}]
    ELSE st

\* the reverse iterator walks the records that were in the file when it was
\* made; the Abort records are appended behind them
RECURSIVE ReversePass(_, _, _)
ReversePass(recs, i, st) ==
    IF st.losers = {} \/ i = 0 THEN st
    ELSE ReversePass(recs, i - 1, UndoRecord(st, recs[i]))

\* BufferPool.Recover on the log `recs`: the pool, the data file and the
\* Abort records it appends
RecoverResult(pgs, dsk, recs) ==
    LET fwd == ForwardPass(recs, 1, [losers |-> {}, pages |-> pgs, disk |-> dsk,
                                     aborts |-> <<>>])
    IN  ReversePass(recs, Len(recs), fwd)

\* Rollback's loop body (lines 21-39) leaving the cached page in place
RollbackRecordKeepCache(st, r, tid) ==
    IF r.tid # tid THEN st
    ELSE IF r.typ = BeginRecord THEN [st EXCEPT !.done = TRUE]
    ELSE IF r.typ = UpdateRecord
         THEN [st EXCEPT !.disk = flushPage(@, r.pg, initFromBuffer(r.before))]
    ELSE st

\* Rollback's loop body (lines 21-39) without `if record.Tid() != tid`
RollbackRecordAnyTid(st, r, tid) ==
    IF r.typ = BeginRecord THEN [st EXCEPT !.done = (r.tid = tid)]
    ELSE IF r.typ = UpdateRecord
         THEN [st EXCEPT !.pages = Remove(@, r.pg),
                         !.disk = flushPage(@, r.pg, initFromBuffer(r.before))]
    ELSE st

\* Rollback's loop body (lines 21-39)
RollbackRecord(st, r, tid) ==
    IF r.tid # tid THEN st
    ELSE IF r.typ = BeginRecord THEN [st EXCEPT !.done = TRUE]
    ELSE IF r.typ = UpdateRecord
         THEN [st EXCEPT !.pages = Remove(@, r.pg),
                         !.disk = flushPage(@, r.pg, initFromBuffer(r.before))]
    ELSE st

RECURSIVE RollbackPass(_, _, _, _)
RollbackPass(recs, i, st, tid) ==
    IF st.done \/ i = 0 THEN st
    ELSE RollbackPass(recs, i - 1, RollbackRecord(st, recs[i], tid), tid)

\* BufferPool.Rollback(tid) on the log `recs`
RollbackResult(pgs, dsk, recs, tid) ==
    RollbackPass(recs, Len(recs), [pages |-> pgs, disk |-> dsk, done |-> FALSE], tid)

\* ------------------------------------------------------- state machine
Ret(op, tid, pg, err) == [op |-> op, tid |-> tid, pg |-> pg, err |-> err]

\* calls on the heap file and on the log file are not told apart
Other == Ret("-", 0, -1, "ok")

\* the page of the GetPage that has just failed with BufferPoolFull, if any
FullPage == IF last.op = "GetPage" /\ last.err = "BufferPoolFull" THEN last.pg ELSE -1

\* NewBufferPool, NewHeapFile on an empty file, NewLogFile on an empty log
Init ==
    /\ pages = EmptyMap
    /\ logAttached = FALSE
    /\ tdSlots = NumSlots
    /\ numPages = 0
    /\ lastEmptyPage = -1
    /\ disk = <<>>
    /\ logDisk = <<>>
    /\ logBuf = <<>>
    /\ offset = 0
    /\ before = EmptyMap
    /\ last = Ret("New", 0, -1, "ok")
    /\ bpMaxPages = maxPages
    /\ objRid = EmptyMap
    /\ hist = EmptyMap
    /\ iter = EmptyMap

\* the log holds fewer than max records
Budget(max) == Len(AllRecs) < max

\* a transaction is active from its Begin record to its Commit or Abort record
Active(t) ==
    /\ InLog(AllRecs, BeginRecord, t)
    /\ ~InLog(AllRecs, CommitRecord, t)
    /\ ~InLog(AllRecs, AbortRecord, t)

RECURSIVE MaxTidIn(_)
MaxTidIn(recs) ==
    IF recs = <<>> THEN 0
    ELSE LET m == MaxTidIn(Tail(recs)) IN IF Head(recs).tid > m THEN Head(recs).tid ELSE m

\* NewTID: ids are handed out in increasing order
NextTid == MaxTidIn(AllRecs) + 1

\* with a log attached a transaction works between its Begin and its end;
\* without one (simple mode) any transaction id may be used
MayRun(t) == ~logAttached \/ Active(t)

\* the image a page had before the call that is about to change it
PriorImage(p, dsk) == IF p \in DOMAIN pages THEN toBuffer(pages[p]) ELSE dsk[p + 1]

\* the caller keeps the before-image of each page it has changed and not yet logged
NoteBefore(o, t) ==
    LET b == Restrict(before, DOMAIN o.pages) IN
    IF o.err = "ok" /\ logAttached /\ o.pg \notin DOMAIN b
    THEN Put(b, o.pg, [tid |-> t, img |-> PriorImage(o.pg, o.disk)])
    ELSE b

GetPageOp(p) ==
    \E g \in GetPage(pages, disk, p) :
        /\ pages' = g.pages
        /\ before' = Restrict(before, DOMAIN g.pages)
        /\ last' = Ret("GetPage", 0, p, g.err)
        /\ UNCHANGED <<logAttached, tdSlots, numPages, lastEmptyPage, disk, logDisk, logBuf, offset>>

\* a transaction inserts a tuple carrying its own id as field value; the file
\* grows to MaxFilePages pages at most
InsertTupleOp(t) ==
    /\ MayRun(t)
    /\ \E o \in insertTuple(pages, disk, numPages, lastEmptyPage, tdSlots, t, Tuple(t, 0)) :
        /\ o.numPages <= MaxFilePages
        /\ pages' = o.pages
        /\ disk' = o.disk
        /\ numPages' = o.numPages
        /\ lastEmptyPage' = o.lastEmptyPage
        /\ before' = NoteBefore(o, t)
        /\ last' = Other
    /\ UNCHANGED <<logAttached, tdSlots, logDisk, logBuf, offset>>

DeleteTupleOp(t, p, s) ==
    /\ MayRun(t)
    /\ \E o \in deleteTuple(pages, disk, numPages, lastEmptyPage, t, p, s) :
        /\ pages' = o.pages
        /\ disk' = o.disk
        /\ numPages' = o.numPages
        /\ lastEmptyPage' = o.lastEmptyPage
        /\ before' = NoteBefore(o, t)
        /\ last' = Other
    /\ UNCHANGED <<logAttached, tdSlots, logDisk, logBuf, offset>>

RECURSIVE FlushAll(_, _, _)
FlushAll(dsk, pgs, S) ==
    IF S = {} THEN dsk
    ELSE LET p == CHOOSE x \in S : TRUE IN
         FlushAll(flushPage(dsk, p, pgs[p]), pgs, S \ {p})

\* BufferPool.FlushAllPages
FlushAllPagesOp ==
    /\ DOMAIN pages # {}
    /\ disk' = FlushAll(disk, pages, DOMAIN pages)
    /\ pages' = [p \in DOMAIN pages |-> setDirty(pages[p], NoTid, FALSE)]
    /\ last' = Other
    /\ UNCHANGED <<logAttached, tdSlots, numPages, lastEmptyPage, logDisk, logBuf, offset, before>>

\* BufferPool.CommitTransaction: the body is empty
CommitTransactionOp(t) ==
    /\ MayRun(t)
    /\ last' = Ret("CommitTransaction", t, FullPage, "ok")
    /\ UNCHANGED <<pages, logAttached, tdSlots, numPages, lastEmptyPage, disk, logDisk, logBuf,
                   offset, before>>

\* BufferPool.AbortTransaction: the body is empty
AbortTransactionOp(t) ==
    /\ MayRun(t)
    /\ last' = Ret("AbortTransaction", t, FullPage, "ok")
    /\ UNCHANGED <<pages, logAttached, tdSlots, numPages, lastEmptyPage, disk, logDisk, logBuf,
                   offset, before>>

LogAppend(r) ==
    /\ logAttached
    /\ logBuf' = Append(logBuf, r)
    /\ offset' = offset + RecSize(r)
    /\ last' = Other
    /\ UNCHANGED <<pages, logAttached, tdSlots, numPages, lastEmptyPage, disk, logDisk>>

LogBeginOp(t) ==
    /\ t = NextTid
    /\ LogAppend(Plain(BeginRecord, t))
    /\ UNCHANGED before

\* LogUpdate(tid, before, after) for a page the transaction changed
LogUpdateOp(p) ==
    /\ p \in DOMAIN before
    /\ p \in DOMAIN pages
    /\ Active(before[p].tid)
    /\ LogAppend(Rec(UpdateRecord, before[p].tid, p, before[p].img, toBuffer(pages[p])))
    /\ before' = Remove(before, p)

LogCommitOp(t) ==
    /\ Active(t)
    /\ LogAppend(Plain(CommitRecord, t))
    /\ UNCHANGED before

LogAbortOp(t) ==
    /\ Active(t)
    /\ last.op = "Rollback" /\ last.tid = t /\ last.err = "ok"
    /\ LogAppend(Plain(AbortRecord, t))
    /\ UNCHANGED before

ForceOp ==
    /\ logAttached
    /\ logBuf # <<>>
    /\ logDisk' = Force(logDisk, logBuf)
    /\ logBuf' = <<>>
    /\ last' = Other
    /\ UNCHANGED <<pages, logAttached, tdSlots, numPages, lastEmptyPage, disk, offset, before>>

RollbackOp(t) ==
    /\ MayRun(t)
    /\ IF ~logAttached
       THEN /\ last' = Ret("Rollback", t, -1, "log file not initialized")
            /\ UNCHANGED <<pages, disk, logDisk, logBuf, offset, before>>
       ELSE LET recs == Force(logDisk, logBuf)
                r == RollbackResult(pages, disk, recs, t) IN
            /\ pages' = r.pages
            /\ disk' = r.disk
            /\ logDisk' = recs
            /\ logBuf' = <<>>
            /\ offset' = Bytes(recs)
            /\ before' = Restrict(before, DOMAIN r.pages)
            /\ last' = Ret("Rollback", t, -1, "ok")
    /\ UNCHANGED <<logAttached, tdSlots, numPages, lastEmptyPage>>

\* the process dies: the files stay, a new pool, heap file and log file are made
CrashOp ==
    /\ logAttached
    /\ pages' = EmptyMap
    /\ logAttached' = FALSE
    /\ numPages' = Len(disk)
    /\ lastEmptyPage' = -1
    /\ logBuf' = <<>>
    /\ offset' = 0
    /\ before' = EmptyMap
    /\ last' = Ret("Crash", 0, -1, "ok")
    /\ UNCHANGED <<tdSlots, disk, logDisk>>

\* Recover runs when the database is started, before any other call
RecoverOp ==
    /\ ~logAttached
    /\ last.op \in {"New", "Crash"}
    /\ LET recs == Force(logDisk, logBuf)
           r == RecoverResult(pages, disk, recs) IN
        /\ pages' = r.pages
        /\ disk' = r.disk
        /\ logDisk' = recs \o r.aborts
        /\ offset' = Bytes(recs \o r.aborts)
        /\ before' = Restrict(before, DOMAIN r.pages)
    /\ logAttached' = TRUE
    /\ logBuf' = <<>>
    /\ last' = Ret("Recover", 0, -1, "ok")
    /\ UNCHANGED <<tdSlots, numPages, lastEmptyPage>>

Next ==
    \/ \E p \in PageNos : GetPageOp(p) /\ UNCHANGED opVars
    \/ \E t \in Tids : InsertTupleOp(t) /\ UNCHANGED opVars
    \/ \E t \in Tids, p \in PageNos, s \in 0..(NumSlots - 1) : DeleteTupleOp(t, p, s) /\ UNCHANGED opVars
    \/ FlushAllPagesOp /\ UNCHANGED opVars
    \/ \E t \in Tids : CommitTransactionOp(t) /\ UNCHANGED opVars
    \/ \E t \in Tids : AbortTransactionOp(t) /\ UNCHANGED opVars
    \/ \E t \in Tids : Budget(MaxLogAny) /\ LogBeginOp(t) /\ UNCHANGED opVars
    \/ \E p \in PageNos : Budget(MaxLogAny) /\ LogUpdateOp(p) /\ UNCHANGED opVars
    \/ \E t \in Tids : Budget(MaxLogAny) /\ LogCommitOp(t) /\ UNCHANGED opVars
    \/ \E t \in Tids : Budget(MaxLogAny) /\ LogAbortOp(t) /\ UNCHANGED opVars
    \/ ForceOp /\ UNCHANGED opVars
    \/ \E t \in Tids : RollbackOp(t) /\ UNCHANGED opVars
    \/ Budget(MaxLogAny + 1) /\ CrashOp /\ UNCHANGED opVars
    \/ RecoverOp /\ UNCHANGED opVars

Spec == Init /\ [][Next]_vars

\* ------------------------------------------- callers that keep the WAL rules
\* log_file.go leaves write-ahead logging and two-phase locking to the caller:
\* a page is changed by one active transaction at a time, every change is
\* logged and the log forced before the page may be written, a transaction
\* logs all its changes before it commits or rolls back.
NoPending(t) == \A p \in DOMAIN before : before[p].tid # t

Updated(recs, t, p) ==
    \E i \in 1..Len(recs) : recs[i].typ = UpdateRecord /\ recs[i].tid = t /\ recs[i].pg = p

LockedByOther(p, t) ==
    \E u \in Tids \ {t} :
        /\ Active(u)
        /\ \/ Updated(AllRecs, u, p)
           \/ p \in DOMAIN before /\ before[p].tid = u

WalInsert(t) ==
    /\ logAttached
    /\ InsertTupleOp(t)
    /\ \A p \in DOMAIN pages' :
          pages'[p].dirty /\ pages'[p].dirtyTid = t => ~LockedByOther(p, t)

WalDelete(t, p, s) ==
    /\ logAttached
    /\ ~LockedByOther(p, t)
    /\ DeleteTupleOp(t, p, s)

WalFlushAllPages ==
    /\ logAttached
    /\ before = EmptyMap
    /\ logBuf = <<>>
    /\ FlushAllPagesOp

WalCommit(t) == NoPending(t) /\ LogCommitOp(t)

WalRollback(t) == logAttached /\ NoPending(t) /\ RollbackOp(t)

\* a transaction that rolled back logs its Abort before anything else runs
AbortPending == last.op = "Rollback" /\ last.err = "ok"

NextWAL ==
    \/ \E t \in Tids : ~AbortPending /\ WalInsert(t) /\ UNCHANGED opVars
    \/ \E t \in Tids, p \in PageNos, s \in 0..(NumSlots - 1) : ~AbortPending /\ WalDelete(t, p, s) /\ UNCHANGED opVars
    \/ ~AbortPending /\ WalFlushAllPages /\ UNCHANGED opVars
    \/ \E t \in Tids : ~AbortPending /\ Budget(MaxLog) /\ LogBeginOp(t) /\ UNCHANGED opVars
    \/ \E p \in PageNos : ~AbortPending /\ Budget(MaxLog) /\ LogUpdateOp(p) /\ UNCHANGED opVars
    \/ \E t \in Tids : ~AbortPending /\ Budget(MaxLog) /\ WalCommit(t) /\ UNCHANGED opVars
    \/ \E t \in Tids : Budget(MaxLog) /\ LogAbortOp(t) /\ UNCHANGED opVars
    \/ ~AbortPending /\ ForceOp /\ UNCHANGED opVars
    \/ \E t \in Tids : ~AbortPending /\ WalRollback(t) /\ UNCHANGED opVars
    \/ Budget(MaxLog + 1) /\ CrashOp /\ UNCHANGED opVars
    \/ RecoverOp /\ UNCHANGED opVars

SpecWAL == Init /\ [][NextWAL]_vars

\* ------------------------------------------------- heap pages on their own
\* Two heap pages, numbered 0 and 1, are driven directly: insertTuple with the
\* caller's tuple objects, deleteTuple by slot, and a write to bytes followed by
\* a read back.
Objs == 1..MaxObj

\* the Fields of the caller's tuple object o
ObjFields(o) == o

NoRid == <<-1, -1>>

\* the Rid field of the tuple in slot i of page p
RidAt(pgs, rids, p, i) ==
    IF pgs[p].tuples[i].obj = 0 THEN <<p, i>> ELSE rids[pgs[p].tuples[i].obj]

Occupied(h) == {i \in 0..(h.numSlots - 1) : h.tuples[i] # Nil}

InitPage ==
    /\ pages = [p \in {0, 1} |-> newHeapPage(PageSlots)]
    /\ logAttached = FALSE
    /\ tdSlots = PageSlots
    /\ numPages = 0
    /\ lastEmptyPage = -1
    /\ disk = <<>>
    /\ logDisk = <<>>
    /\ logBuf = <<>>
    /\ offset = 0
    /\ before = EmptyMap
    /\ last = Ret("New", 0, -1, "ok")
    /\ bpMaxPages = 2
    /\ objRid = [o \in Objs |-> NoRid]
    /\ hist = EmptyMap
    /\ iter = EmptyMap

\* what the calls on a heap page leave alone
notPage == <<logAttached, tdSlots, numPages, lastEmptyPage, disk, logDisk, logBuf, offset, before,
            bpMaxPages, hist, iter>>

\* heapPage.insertTuple(t) on page p with the caller's object o: t.Rid is set
PageInsertOp(p, o) ==
    LET r == PageInsertTuple(pages[p], Tuple(ObjFields(o), o)) IN
    /\ pages' = [pages EXCEPT ![p] = r.page]
    /\ objRid' = IF r.err = "ok" THEN [objRid EXCEPT ![o] = <<p, PageInsertSlot(pages[p])>>]
                 ELSE objRid
    /\ last' = Ret("insertTuple", 0, p, r.err)

\* heapPage.deleteTuple(rid) on page p with rid.slotNo = s
PageDeleteOp(p, s) ==
    LET r == PageDeleteTuple(pages[p], s) IN
    /\ pages' = [pages EXCEPT ![p] = r.page]
    /\ objRid' = objRid
    /\ last' = Ret("deleteTuple", 0, p, r.err)

\* page p is written with toBuffer and read back with initFromBuffer
PageReloadOp(p) ==
    /\ pages' = [pages EXCEPT ![p] = initFromBuffer(toBuffer(pages[p]))]
    /\ objRid' = objRid
    /\ last' = Ret("initFromBuffer", 0, p, "ok")

NextPage ==
    \/ \E p \in {0, 1}, o \in Objs : PageInsertOp(p, o) /\ UNCHANGED notPage
    \/ \E p \in {0, 1}, s \in (-1)..PageSlots : PageDeleteOp(p, s) /\ UNCHANGED notPage
    \/ \E p \in {0, 1} : PageReloadOp(p) /\ UNCHANGED notPage

SpecPage == InitPage /\ [][NextPage]_vars

\* ------------------------------------------- heap file: insert and scan
\* A heap file used through insertTuple with the caller's tuple objects and
\* read back through HeapFile.Iterator.
FillSlots == 3       \* slots per page are 1..FillSlots
FillPool == 3        \* the buffer pool's capacity is 1..FillPool
FillPages == 3       \* the file grows to at most this many pages
HeapSlots == 2       \* slots per page where tuples are also deleted
HeapPool == 2        \* the pool's capacity is 1..HeapPool there
HeapPages == 2       \* pages of the file there
HeapInserts == 3     \* successful inserts there

Vals == {ObjFields(o) : o \in Objs}

EmptyBag == [v \in Vals |-> 0]

\* what Iterator's closure returns for the tuple in slot i of page p:
\* &Tuple{*f.td, next.Fields, next.Rid}
Yield(pgs, rids, p, i) ==
    [fields |-> pgs[p].tuples[i].fields, rid |-> RidAt(pgs, rids, p, i), pg |-> p, slot |-> i]

\* heapPage.tupleIter drained from slot i: the non-nil tuples in slot order
RECURSIVE tupleIter(_, _, _, _)
tupleIter(pgs, rids, p, i) ==
    IF i >= pgs[p].numSlots THEN <<>>
    ELSE (IF pgs[p].tuples[i] = Nil THEN <<>> ELSE <<Yield(pgs, rids, p, i)>>)
         \o tupleIter(pgs, rids, p, i + 1)

\* HeapFile.Iterator ending one page early (pgNo == nPages - 1)
RECURSIVE HeapIterSkipLast(_, _, _, _, _, _, _)
HeapIterSkipLast(p, pgs, dsk, np, rids, out, read) ==
    IF p >= np - 1 THEN {[pages |-> pgs, out |-> out, read |-> read, err |-> "ok"]}
    ELSE UNION {
        IF g.err # "ok" THEN {[pages |-> g.pages, out |-> out, read |-> read, err |-> g.err]}
        ELSE HeapIterSkipLast(p + 1, g.pages, dsk, np, rids,
                              out \o tupleIter(g.pages, rids, p, 0), Put(read, p, g.pages[p]))
        : g \in GetPage(pgs, dsk, p)}

\* HeapFile.Iterator pulled until nil or an error, from page p on: the tuples
\* yielded, the pages as GetPage returned them, and the pool afterwards
RECURSIVE HeapIter(_, _, _, _, _, _, _)
HeapIter(p, pgs, dsk, np, rids, out, read) ==
    IF p = np THEN {[pages |-> pgs, out |-> out, read |-> read, err |-> "ok"]}
    ELSE UNION {
        IF g.err # "ok" THEN {[pages |-> g.pages, out |-> out, read |-> read, err |-> g.err]}
        ELSE HeapIter(p + 1, g.pages, dsk, np, rids,
                      out \o tupleIter(g.pages, rids, p, 0), Put(read, p, g.pages[p]))
        : g \in GetPage(pgs, dsk, p)}

\* the page p of the file as a reader finds it: the cached copy, else the bytes
Content(pgs, dsk, p) ==
    IF p \in DOMAIN pgs THEN pgs[p]
    ELSE IF p < Len(dsk) THEN initFromBuffer(dsk[p + 1])
    ELSE newHeapPage(0)

\* how many tuples with fields v the file holds
FileCount(pgs, dsk, np, v) ==
    Cardinality(UNION {{<<p, i>> : i \in {j \in Occupied(Content(pgs, dsk, p)) :
                                            Content(pgs, dsk, p).tuples[j].fields = v}}
                       : p \in 0..(np - 1)})

FileBag(pgs, dsk, np) == [v \in Vals |-> FileCount(pgs, dsk, np, v)]

\* how many of the yielded tuples have fields v
OutBag(out) == [v \in Vals |-> Cardinality({k \in 1..Len(out) : out[k].fields = v})]

BagSize(b) == LET S == {<<v, k>> \in Vals \X (1..(FillSlots * FillPages)) : k <= b[v]} IN
              Cardinality(S)

\* NewBufferPool(c), NewHeapFile on an empty file with n slots per page
InitHeapWith(n, c) ==
    /\ pages = EmptyMap
    /\ logAttached = FALSE
    /\ tdSlots = n
    /\ numPages = 0
    /\ lastEmptyPage = -1
    /\ disk = <<>>
    /\ logDisk = <<>>
    /\ logBuf = <<>>
    /\ offset = 0
    /\ before = EmptyMap
    /\ last = Ret("New", 0, -1, "ok")
    /\ bpMaxPages = c
    /\ objRid = [o \in Objs |-> NoRid]
    /\ hist = [pure |-> TRUE, ins |-> EmptyBag]
    /\ iter = EmptyMap

\* the slot heapPage.insertTuple takes on page pg: the lowest free one of the
\* page as GetPage returns it, or of the page just allocated
InsertedSlot(pg) ==
    PageInsertSlot(IF pg < numPages THEN Content(pages, disk, pg) ELSE newHeapPage(tdSlots))

notHeap == <<logAttached, tdSlots, logDisk, logBuf, offset, before, bpMaxPages, iter>>

\* HeapFile.insertTuple(&t, tid) with the caller's object o; the file has room
\* for `room` pages, and the caller inserts until `most` inserts have succeeded
HeapInsertOp(o, room, most) ==
    \E r \in insertTuple(pages, disk, numPages, lastEmptyPage, tdSlots, 1,
                         Tuple(ObjFields(o), o)) :
        /\ BagSize(hist.ins) < most
        /\ r.numPages <= room
        /\ pages' = r.pages
        /\ disk' = r.disk
        /\ numPages' = r.numPages
        /\ lastEmptyPage' = r.lastEmptyPage
        /\ objRid' = IF r.err = "ok" THEN [objRid EXCEPT ![o] = <<r.pg, InsertedSlot(r.pg)>>]
                     ELSE objRid
        /\ hist' = IF r.err = "ok"
                   THEN [hist EXCEPT !.ins[ObjFields(o)] = @ + 1]
                   ELSE [hist EXCEPT !.pure = FALSE]
        /\ last' = Ret("Insert", 1, r.pg, r.err)

\* HeapFile.Iterator(tid) pulled to its end or to its first error
HeapScanOp ==
    \E r \in HeapIter(0, pages, disk, numPages, objRid, <<>>, EmptyMap) :
        /\ pages' = r.pages
        /\ last' = [op |-> "Iterator", tid |-> 1, pg |-> -1, err |-> r.err,
                    out |-> r.out, read |-> r.read]
        /\ UNCHANGED <<disk, numPages, lastEmptyPage, objRid, hist>>

\* HeapFile.deleteTuple(t, tid) with t the k-th tuple the scan has just yielded
HeapDeleteOp(k) ==
    /\ last.op = "Iterator"
    /\ last.err = "ok"
    /\ k \in 1..Len(last.out)
    /\ \E r \in deleteTuple(pages, disk, numPages, lastEmptyPage, 1,
                            last.out[k].rid[1], last.out[k].rid[2]) :
        /\ pages' = r.pages
        /\ disk' = r.disk
        /\ numPages' = r.numPages
        /\ lastEmptyPage' = r.lastEmptyPage
        /\ hist' = [hist EXCEPT !.pure = FALSE]
        /\ last' = [op |-> "Delete", tid |-> 1, pg |-> r.pg, err |-> r.err,
                    fields |-> last.out[k].fields, rid |-> last.out[k].rid,
                    from |-> <<last.out[k].pg, last.out[k].slot>>]
        /\ UNCHANGED objRid

\* HeapFile.deleteTuple(t, tid) with a rid the caller made: page p, slot s
HeapDeleteRidOp(p, s) ==
    /\ \E r \in deleteTuple(pages, disk, numPages, lastEmptyPage, 1, p, s) :
        /\ pages' = r.pages
        /\ disk' = r.disk
        /\ numPages' = r.numPages
        /\ lastEmptyPage' = r.lastEmptyPage
        /\ hist' = [hist EXCEPT !.pure = FALSE]
        /\ last' = [op |-> "DeleteRid", tid |-> 1, pg |-> p, err |-> r.err, slot |-> s]
        /\ UNCHANGED objRid

\* BufferPool.FlushAllPages between the calls on the heap file
HeapFlushOp ==
    /\ \E p \in DOMAIN pages : pages[p].dirty
    /\ disk' = FlushAll(disk, pages, DOMAIN pages)
    /\ pages' = [p \in DOMAIN pages |-> setDirty(pages[p], NoTid, FALSE)]
    /\ hist' = [hist EXCEPT !.pure = FALSE]
    /\ last' = Ret("FlushAllPages", 0, -1, "ok")
    /\ UNCHANGED <<numPages, lastEmptyPage, objRid>>

\* inserts and scans only
InitFill == \E n \in 1..FillSlots, c \in 1..FillPool : InitHeapWith(n, c)

NextFill ==
    \/ \E o \in Objs : HeapInsertOp(o, FillPages, FillSlots * FillPages) /\ UNCHANGED notHeap
    \/ HeapScanOp /\ UNCHANGED notHeap

SpecFill == InitFill /\ [][NextFill]_vars

\* inserts, scans, deletes of yielded tuples and flushes
InitHeap == \E c \in 1..HeapPool : InitHeapWith(HeapSlots, c)

NextHeap ==
    \/ \E o \in Objs : HeapInsertOp(o, HeapPages, HeapInserts) /\ UNCHANGED notHeap
    \/ HeapScanOp /\ UNCHANGED notHeap
    \/ \E k \in 1..(HeapSlots * HeapPages) : HeapDeleteOp(k) /\ UNCHANGED notHeap
    \/ \E p \in -1..HeapPages, s \in -1..HeapSlots : HeapDeleteRidOp(p, s) /\ UNCHANGED notHeap
    \/ HeapFlushOp /\ UNCHANGED notHeap

SpecHeap == InitHeap /\ [][NextHeap]_vars

\* --------------------------------------------------- operator iterators
\* One operator at a time is built over a child operator and a heap file, its
\* Iterator is taken, and the iterator is pulled.  The child is an operator
\* whose iterator yields a fixed stream of tuples and errors; like
\* HeapFile.Iterator, it can be pulled again after it has returned an error.
OpSlots == 2         \* slots per page of the operators' heap file
OpPages == 2         \* pages that file grows to
MaxChild == 2        \* length of the child's stream
MaxOps == 2          \* operators built one after the other
MaxPulls == 3        \* pulls on one iterator
limitTups == 1       \* the LimitOp's limit
FilterConst == 1     \* the Filter compares the tuple's field with this constant
MaxStream == 3       \* length of the child's stream where no error occurs
MaxEndPulls == 2     \* pulls made after the first end-of-stream

\* what the child yields: a tuple (Fields, Rid) or an error
Item(v, rid) == [fields |-> v, rid |-> rid, err |-> FALSE]

ErrItem == [fields |-> 0, rid |-> NoRid, err |-> TRUE]

PlainItems == {ErrItem} \cup {Item(v, NoRid) : v \in Vals}

RidItems == {ErrItem} \cup {Item(1, <<0, s>>) : s \in 0..(OpSlots - 1)}

\* tuples of two fields, as the child of a Project yields them
PairItems == {Item(<<a, b>>, NoRid) : a \in Vals, b \in Vals}

\* an error of a child whose tuples have two fields
PairErr == [fields |-> <<0, 0>>, rid |-> NoRid, err |-> TRUE]

\* tuples of one field read from a heap file: no two have the same Rid
ScanItems(n) == {Item(v, <<0, n>>) : v \in Vals}

ScanStreams == UNION {{c \in [1..n -> UNION {ScanItems(k) : k \in 1..n}] :
                          \A k \in 1..n : c[k] \in ScanItems(k)} : n \in 0..MaxStream}

PairStreams == UNION {[1..n -> PairItems] : n \in 0..MaxStream}

Streams(items) == UNION {[1..n -> items] : n \in 0..MaxChild}

\* a pull's first result: no tuple, or a tuple with one field
NilOut == [nil |-> TRUE, val |-> 0]

TupOut(v) == [nil |-> FALSE, val |-> v]

\* a pull's first result when it is the child's tuple itself
SameOut(x) == [nil |-> FALSE, val |-> x.fields, rid |-> x.rid]

\* DBValue.EvalPred(v, op) on the tuple's field
EvalPred(l, r, op) ==
    IF op = "OpGt" THEN l > r
    ELSE IF op = "OpLt" THEN l < r
    ELSE IF op = "OpEq" THEN l = r
    ELSE l # r

BoolOps == {"OpGt", "OpLt", "OpEq", "OpNeq"}

\* Tuple.project(fields) for the select expressions sel, each a field of the
\* child's tuple
project(t, sel) == [k \in 1..Len(sel) |-> t[sel[k]]]

ProjectLists == {<<1>>, <<2>>, <<1, 2>>, <<2, 1>>}

\* the heap file and the pool's pages
FileState(pgs, dsk, np, hint) == [pages |-> pgs, disk |-> dsk, numPages |-> np, lastEmptyPage |-> hint]

FileNow == FileState(pages, disk, numPages, lastEmptyPage)

FileAfter(o) == FileState(o.pages, o.disk, o.numPages, o.lastEmptyPage)

\* what a pull leaves: the iterator's state, the file, the (tuple, error) it
\* returns and the number of inserts or deletes it performed
Pulled(it, fs, out, err, muts) == [iter |-> it, fs |-> fs, out |-> out, err |-> err, muts |-> muts]

\* InsertOp.Iterator's loop from the i-th tuple of a new child iterator
RECURSIVE DrainInsert(_, _, _, _, _)
DrainInsert(i, child, fs, n, count) ==
    IF i > Len(child) THEN {[fs |-> fs, count |-> count, err |-> "ok"]}
    ELSE IF child[i].err THEN {[fs |-> fs, count |-> count, err |-> "ChildError"]}
    ELSE UNION {
        IF o.err # "ok" THEN {[fs |-> FileAfter(o), count |-> count, err |-> o.err]}
        ELSE DrainInsert(i + 1, child, FileAfter(o), n, count + 1)
        : o \in insertTuple(fs.pages, fs.disk, fs.numPages, fs.lastEmptyPage, n, 1,
                            Tuple(child[i].fields, 0))}

\* DeleteOp.Iterator's loop from the i-th tuple of a new child iterator
RECURSIVE DrainDelete(_, _, _, _)
DrainDelete(i, child, fs, count) ==
    IF i > Len(child) THEN {[fs |-> fs, count |-> count, err |-> "ok"]}
    ELSE IF child[i].err THEN {[fs |-> fs, count |-> count, err |-> "ChildError"]}
    ELSE UNION {
        IF o.err # "ok" THEN {[fs |-> FileAfter(o), count |-> count, err |-> o.err]}
        ELSE DrainDelete(i + 1, child, FileAfter(o), count + 1)
        : o \in deleteTuple(fs.pages, fs.disk, fs.numPages, fs.lastEmptyPage, 1,
                            child[i].rid[1], child[i].rid[2])}

\* the closure InsertOp.Iterator returns, or DeleteOp.Iterator's, after the
\* drain `ds` when the operator had not completed
CountPull(it, fs, ds) ==
    IF it.completed THEN {Pulled(it, fs, TupOut(0), "ok", 0)}
    ELSE {IF d.err # "ok" THEN Pulled(it, d.fs, NilOut, d.err, d.count)
          ELSE Pulled([it EXCEPT !.completed = TRUE], d.fs, TupOut(d.count), "ok", d.count)
          : d \in ds}

InsertPull(it, fs, n) == CountPull(it, fs, DrainInsert(1, it.child, fs, n, 0))

DeletePull(it, fs) == CountPull(it, fs, DrainDelete(1, it.child, fs, 0))

\* Filter.Iterator's closure returning end-of-stream at the first tuple that
\* fails the predicate
FilterPullStops(it, fs) ==
    IF it.pos > Len(it.child) THEN Pulled(it, fs, NilOut, "ok", 0)
    ELSE LET x == it.child[it.pos]
             it2 == [it EXCEPT !.pos = @ + 1] IN
         IF x.err THEN Pulled(it2, fs, NilOut, "ChildError", 0)
         ELSE IF EvalPred(x.fields, FilterConst, it.pred) THEN Pulled(it2, fs, SameOut(x), "ok", 0)
         ELSE Pulled(it2, fs, NilOut, "ok", 0)

\* the closure Filter.Iterator returns, with the predicate field op FilterConst
RECURSIVE FilterPull(_, _)
FilterPull(it, fs) ==
    IF it.pos > Len(it.child) THEN Pulled(it, fs, NilOut, "ok", 0)
    ELSE LET x == it.child[it.pos]
             it2 == [it EXCEPT !.pos = @ + 1] IN
         IF x.err THEN Pulled(it2, fs, NilOut, "ChildError", 0)
         ELSE IF EvalPred(x.fields, FilterConst, it.pred) THEN Pulled(it2, fs, SameOut(x), "ok", 0)
         ELSE FilterPull(it2, fs)

\* contains(seen, t): Tuple.equals on the projected tuples, which all carry
\* the descriptor of the select expressions
contains(seen, t) == \E k \in 1..Len(seen) : seen[k] = t

\* Project.Iterator's closure comparing with the last tuple emitted only
RECURSIVE ProjectPullLastOnly(_, _)
ProjectPullLastOnly(it, fs) ==
    IF it.pos > Len(it.child) THEN Pulled(it, fs, NilOut, "ok", 0)
    ELSE LET x == it.child[it.pos]
             it2 == [it EXCEPT !.pos = @ + 1]
             outTup == IF x.err THEN <<>> ELSE project(x.fields, it.select) IN
         IF x.err THEN Pulled(it2, fs, NilOut, "ChildError", 0)
         ELSE IF it.seen # <<>> /\ it.seen[Len(it.seen)] = outTup
              THEN ProjectPullLastOnly(it2, fs)
         ELSE Pulled([it2 EXCEPT !.seen = Append(@, outTup)], fs, TupOut(outTup), "ok", 0)

\* the closure Project.Iterator returns: tuples already in `seen` are skipped,
\* whatever p.distinct is
RECURSIVE ProjectPull(_, _)
ProjectPull(it, fs) ==
    IF it.pos > Len(it.child) THEN Pulled(it, fs, NilOut, "ok", 0)
    ELSE LET x == it.child[it.pos]
             it2 == [it EXCEPT !.pos = @ + 1]
             outTup == IF x.err THEN <<>> ELSE project(x.fields, it.select) IN
         IF x.err THEN Pulled(it2, fs, NilOut, "ChildError", 0)
         ELSE IF contains(it.seen, outTup) THEN ProjectPull(it2, fs)
         ELSE Pulled([it2 EXCEPT !.seen = Append(@, outTup)], fs, TupOut(outTup), "ok", 0)

\* LimitOp.Iterator's closure comparing the count with the limit after the
\* increment
LimitPullLate(it, fs) ==
    IF it.pos > Len(it.child) THEN Pulled(it, fs, NilOut, "ok", 0)
    ELSE LET x == it.child[it.pos]
             it2 == [it EXCEPT !.pos = @ + 1] IN
         IF x.err THEN Pulled(it2, fs, NilOut, "ChildError", 0)
         ELSE IF it.cnt = it.limit + 1 THEN Pulled(it2, fs, NilOut, "ok", 0)
         ELSE Pulled([it2 EXCEPT !.cnt = @ + 1], fs, SameOut(x), "ok", 0)

\* the closure LimitOp.Iterator returns: the child is pulled before the count
\* is looked at
LimitPull(it, fs) ==
    IF it.pos > Len(it.child) THEN Pulled(it, fs, NilOut, "ok", 0)
    ELSE LET x == it.child[it.pos]
             it2 == [it EXCEPT !.pos = @ + 1] IN
         IF x.err THEN Pulled(it2, fs, NilOut, "ChildError", 0)
         ELSE IF it.cnt = it.limit THEN Pulled(it2, fs, NilOut, "ok", 0)
         ELSE Pulled([it2 EXCEPT !.cnt = @ + 1], fs, SameOut(x), "ok", 0)

NoOp == [kind |-> "-", child |-> <<>>, pos |-> 1, completed |-> FALSE, seen |-> <<>>, cnt |-> 0,
         pred |-> "OpGt", select |-> <<1>>, distinct |-> TRUE, limit |-> limitTups]

NoPulls == [ops |-> 0, pulls |-> 0, errd |-> FALSE, out |-> <<>>, ends |-> 0]

InitOps ==
    /\ pages = EmptyMap
    /\ logAttached = FALSE
    /\ tdSlots = OpSlots
    /\ numPages = 0
    /\ lastEmptyPage = -1
    /\ disk = <<>>
    /\ logDisk = <<>>
    /\ logBuf = <<>>
    /\ offset = 0
    /\ before = EmptyMap
    /\ last = Ret("New", 0, -1, "ok")
    /\ bpMaxPages = 1
    /\ objRid = EmptyMap
    /\ hist = NoPulls
    /\ iter = NoOp

notOps == <<logAttached, tdSlots, logDisk, logBuf, offset, before, bpMaxPages, objRid>>

\* NewInsertOp, NewDeleteOp, NewFilter, NewProjectOp or NewLimitOp over the
\* child, then Iterator(tid)
NewOpIter(kind, child) ==
    /\ hist.ops < MaxOps
    /\ iter' = [NoOp EXCEPT !.kind = kind, !.child = child]
    /\ hist' = [NoPulls EXCEPT !.ops = hist.ops + 1]
    /\ last' = Ret("NewIterator", 1, -1, "ok")
    /\ UNCHANGED <<pages, disk, numPages, lastEmptyPage>>

\* one call of the iterator, with the results rs the operator's closure
\* allows; the caller makes at most `most` calls
OpPull(kind, rs, most) ==
    /\ iter.kind = kind
    /\ hist.pulls < most
    /\ \E r \in rs :
        /\ r.fs.numPages <= OpPages
        /\ iter' = r.iter
        /\ pages' = r.fs.pages
        /\ disk' = r.fs.disk
        /\ numPages' = r.fs.numPages
        /\ lastEmptyPage' = r.fs.lastEmptyPage
        /\ hist' = [hist EXCEPT !.pulls = @ + 1, !.errd = @ \/ r.err # "ok",
                                 !.out = IF r.out.nil THEN @ ELSE Append(@, r.out),
                                 !.ends = IF r.out.nil /\ r.err = "ok" THEN @ + 1 ELSE @]
        /\ last' = [op |-> "Pull", tid |-> 1, pg |-> -1, err |-> r.err,
                    out |-> r.out, muts |-> r.muts]

NextOps ==
    \/ \E c \in Streams(PlainItems) : NewOpIter("Insert", c) /\ UNCHANGED notOps
    \/ \E c \in Streams(RidItems) : NewOpIter("Delete", c) /\ UNCHANGED notOps
    \/ \E c \in Streams(PlainItems) : NewOpIter("Filter", c) /\ UNCHANGED notOps
    \/ \E c \in Streams(PairItems \cup {PairErr}) : NewOpIter("Project", c) /\ UNCHANGED notOps
    \/ \E c \in Streams(PlainItems) : NewOpIter("Limit", c) /\ UNCHANGED notOps
    \/ OpPull("Insert", InsertPull(iter, FileNow, tdSlots), MaxPulls) /\ UNCHANGED notOps
    \/ OpPull("Delete", DeletePull(iter, FileNow), MaxPulls) /\ UNCHANGED notOps
    \/ OpPull("Filter", {FilterPull(iter, FileNow)}, MaxPulls) /\ UNCHANGED notOps
    \/ OpPull("Project", {ProjectPull(iter, FileNow)}, MaxPulls) /\ UNCHANGED notOps
    \/ OpPull("Limit", {LimitPull(iter, FileNow)}, MaxPulls) /\ UNCHANGED notOps

SpecOps == InitOps /\ [][NextOps]_vars

\* ---------------------------------------- Filter, Project, Limit on a stream
\* One Filter, Project or LimitOp over a child that yields its tuples without
\* an error; its iterator is pulled to the end and beyond.
StreamPulls == MaxStream + 1 + MaxEndPulls

\* NewFilter over the child, then Iterator(tid)
FilterOps ==
    {[NoOp EXCEPT !.kind = "Filter", !.child = c, !.pred = op] :
        c \in ScanStreams, op \in BoolOps}

\* NewProjectOp over the child, then Iterator(tid)
ProjectOps ==
    {[NoOp EXCEPT !.kind = "Project", !.child = c, !.select = sel, !.distinct = d] :
        c \in PairStreams, sel \in ProjectLists, d \in BOOLEAN}

\* NewLimitOp over the child, then Iterator(tid)
LimitOps ==
    {[NoOp EXCEPT !.kind = "Limit", !.child = c, !.limit = l] :
        c \in ScanStreams, l \in 0..(MaxStream + 1)}

InitStream ==
    /\ pages = EmptyMap
    /\ logAttached = FALSE
    /\ tdSlots = OpSlots
    /\ numPages = 0
    /\ lastEmptyPage = -1
    /\ disk = <<>>
    /\ logDisk = <<>>
    /\ logBuf = <<>>
    /\ offset = 0
    /\ before = EmptyMap
    /\ last = Ret("NewIterator", 1, -1, "ok")
    /\ bpMaxPages = 1
    /\ objRid = EmptyMap
    /\ hist = [NoPulls EXCEPT !.ops = 1]
    /\ \/ iter \in FilterOps
       \/ iter \in ProjectOps
       \/ iter \in LimitOps

NextStream ==
    \/ OpPull("Filter", {FilterPull(iter, FileNow)}, StreamPulls) /\ UNCHANGED notOps
    \/ OpPull("Project", {ProjectPull(iter, FileNow)}, StreamPulls) /\ UNCHANGED notOps
    \/ OpPull("Limit", {LimitPull(iter, FileNow)}, StreamPulls) /\ UNCHANGED notOps

SpecStream == InitStream /\ [][NextStream]_vars

\* --------------------------------- transactions and page writes that fail
\* The buffer pool's transaction calls, with a data file that cannot always
\* be opened for writing: flushPage then returns the error of os.OpenFile and
\* writes nothing.  hist.active is the transactions begun and not yet
\* committed or aborted, hist.failed whether a flushPage call of the last
\* operation failed.
flushPageOrFail(dsk, p, h, ok) == IF ok THEN flushPage(dsk, p, h) ELSE dsk

\* the loop of FlushAllPages when the writes of the pages in F fail
RECURSIVE FlushAllOrFail(_, _, _, _)
FlushAllOrFail(dsk, pgs, S, F) ==
    IF S = {} THEN dsk
    ELSE LET p == CHOOSE x \in S : TRUE IN
         FlushAllOrFail(flushPageOrFail(dsk, p, pgs[p], p \notin F), pgs, S \ {p}, F)

\* Rollback's loop body when the writes of the pages in F fail
RollbackRecordOrFail(st, r, tid, F) ==
    IF r.tid # tid THEN st
    ELSE IF r.typ = BeginRecord THEN [st EXCEPT !.done = TRUE]
    ELSE IF r.typ = UpdateRecord
         THEN [st EXCEPT !.pages = Remove(@, r.pg),
                         !.disk = flushPageOrFail(@, r.pg, initFromBuffer(r.before),
                                                  r.pg \notin F),
                         !.failed = @ \/ r.pg \in F]
    ELSE st

RECURSIVE RollbackPassOrFail(_, _, _, _, _)
RollbackPassOrFail(recs, i, st, tid, F) ==
    IF st.done \/ i = 0 THEN st
    ELSE RollbackPassOrFail(recs, i - 1, RollbackRecordOrFail(st, recs[i], tid, F), tid, F)

NoTxn == [active |-> {}, failed |-> FALSE]

\* NewBufferPool, NewHeapFile on an empty file, no transaction begun
InitTxn ==
    /\ pages = EmptyMap
    /\ logAttached = FALSE
    /\ tdSlots = NumSlots
    /\ numPages = 0
    /\ lastEmptyPage = -1
    /\ disk = <<>>
    /\ logDisk = <<>>
    /\ logBuf = <<>>
    /\ offset = 0
    /\ before = EmptyMap
    /\ last = Ret("New", 0, -1, "ok")
    /\ bpMaxPages = maxPages
    /\ objRid = EmptyMap
    /\ hist = NoTxn
    /\ iter = EmptyMap

notTxn == <<bpMaxPages, objRid, iter>>

\* a call that makes no flushPage call for the caller to see
NoFlush == hist' = [hist EXCEPT !.failed = FALSE]

\* BufferPool.BeginTransaction(t): the body is `return nil`
BeginTransactionOp(t) ==
    /\ last' = Ret("BeginTransaction", t, -1, "ok")
    /\ hist' = [active |-> hist.active \cup {t}, failed |-> FALSE]
    /\ UNCHANGED <<pages, logAttached, tdSlots, numPages, lastEmptyPage, disk, logDisk, logBuf,
                   offset, before>>

\* BufferPool.CommitTransaction(t) or AbortTransaction(t) ends t
EndTransaction(t) == hist' = [active |-> hist.active \ {t}, failed |-> FALSE]

\* BufferPool.FlushAllPages when the writes of the pages in F fail: the
\* function has no result
FlushAllPagesOrFailOp(F) ==
    /\ DOMAIN pages # {}
    /\ F \subseteq DOMAIN pages
    /\ disk' = FlushAllOrFail(disk, pages, DOMAIN pages, F)
    /\ pages' = [p \in DOMAIN pages |-> setDirty(pages[p], NoTid, FALSE)]
    /\ last' = Ret("FlushAllPages", 0, -1, "ok")
    /\ hist' = [hist EXCEPT !.failed = F # {}]
    /\ UNCHANGED <<logAttached, tdSlots, numPages, lastEmptyPage, logDisk, logBuf, offset, before>>

\* BufferPool.Rollback(t) when the writes of the pages in F fail: the result
\* of flushPage is dropped and the result of the last seek is returned
RollbackOrFailOp(t, F) ==
    /\ logAttached
    /\ Active(t)
    /\ LET recs == Force(logDisk, logBuf)
           r == RollbackPassOrFail(recs, Len(recs),
                                   [pages |-> pages, disk |-> disk, done |-> FALSE,
                                    failed |-> FALSE], t, F) IN
        /\ pages' = r.pages
        /\ disk' = r.disk
        /\ logDisk' = recs
        /\ logBuf' = <<>>
        /\ offset' = Bytes(recs)
        /\ before' = Restrict(before, DOMAIN r.pages)
        /\ last' = Ret("Rollback", t, -1, "ok")
        /\ hist' = [hist EXCEPT !.failed = r.failed]
    /\ UNCHANGED <<logAttached, tdSlots, numPages, lastEmptyPage>>

NextTxn ==
    \/ \E t \in Tids : BeginTransactionOp(t) /\ UNCHANGED notTxn
    \/ \E t \in Tids : CommitTransactionOp(t) /\ EndTransaction(t) /\ UNCHANGED notTxn
    \/ \E t \in Tids : AbortTransactionOp(t) /\ EndTransaction(t) /\ UNCHANGED notTxn
    \/ \E p \in PageNos : GetPageOp(p) /\ NoFlush /\ UNCHANGED notTxn
    \/ \E t \in Tids : InsertTupleOp(t) /\ NoFlush /\ UNCHANGED notTxn
    \/ RecoverOp /\ NoFlush /\ UNCHANGED notTxn
    \/ \E t \in Tids : Budget(MaxLogAny) /\ LogBeginOp(t) /\ NoFlush /\ UNCHANGED notTxn
    \/ \E p \in PageNos : Budget(MaxLogAny) /\ LogUpdateOp(p) /\ NoFlush /\ UNCHANGED notTxn
    \/ \E F \in SUBSET PageNos : FlushAllPagesOrFailOp(F) /\ UNCHANGED notTxn
    \/ \E t \in Tids, F \in SUBSET PageNos : RollbackOrFailOp(t, F) /\ UNCHANGED notTxn

SpecTxn == InitTxn /\ [][NextTxn]_vars

\* ------------------------------------------------------- log file cursor
\* The log file on its own: records are appended with the cursor at the end
\* of the file, forced, and read back with the forward and the reverse
\* iterator.  A record carries the offset stored in its trailer and the
\* number of its bytes that reached the file; a crash in the middle of
\* Force's write leaves the last record of the file short.
MaxAppends == 3      \* records the caller appends
LogTids == 1..2      \* transaction ids in the records

\* the pages given to LogUpdate: no tuple, and one tuple in slot 1 above an
\* empty slot
LogPages ==
    {newHeapPage(PageSlots),
     [newHeapPage(PageSlots) EXCEPT !.tuples[1] = Tuple(2, 0), !.numUsed = 1]}

\* the record with the trailer holding the cursor after the header
LogRecLateOffset(r, off) ==
    [typ |-> r.typ, tid |-> r.tid, pg |-> r.pg, before |-> r.before, after |-> r.after,
     off |-> off + 5, have |-> RecSize(r)]

\* the record r as LogBegin, LogCommit, LogAbort or LogUpdate writes it with
\* the cursor at off
LogRec(r, off) ==
    [typ |-> r.typ, tid |-> r.tid, pg |-> r.pg, before |-> r.before, after |-> r.after,
     off |-> off, have |-> RecSize(r)]

\* the sizes of the values a record is written and read in
FieldSizes(typ) ==
    IF typ = UpdateRecord THEN <<1, 4, 4, 4, PageSize, 4, 4, PageSize, 8>>
    ELSE <<1, 4, 8>>

\* bytes taken by the reads that succeed when `have` bytes are left
RECURSIVE ReadBytes(_, _, _)
ReadBytes(have, sizes, k) ==
    IF k > Len(sizes) \/ sizes[k] > have THEN 0
    ELSE sizes[k] + ReadBytes(have - sizes[k], sizes, k + 1)

Intact(r) == r.have = RecSize(r)

\* length of the file in bytes
RECURSIVE FileBytes(_)
FileBytes(file) == IF file = <<>> THEN 0 ELSE Head(file).have + FileBytes(Tail(file))

StartOf(file, i) == FileBytes(SubSeq(file, 1, i - 1))

\* the records before the first short one
RECURSIVE IntactPrefix(_)
IntactPrefix(file) ==
    IF file = <<>> \/ ~Intact(Head(file)) THEN <<>>
    ELSE <<Head(file)>> \o IntactPrefix(Tail(file))

WellFormed(file) == IntactPrefix(file) = file

\* what the iterators return: a record with its Offset(), or nil
Got(r, o) == [typ |-> r.typ, tid |-> r.tid, pg |-> r.pg,
              before |-> initFromBuffer(r.before), after |-> initFromBuffer(r.after),
              offset |-> o]

\* the closure of LogFile.ForwardIterator called with the cursor at o
ForwardNext(file, o) ==
    IF o >= FileBytes(file) THEN [nil |-> TRUE, err |-> "ok", offset |-> o]
    ELSE IF \A i \in 1..Len(file) : StartOf(file, i) # o
    THEN [nil |-> TRUE, err |-> "partial record", offset |-> o]
    ELSE LET r == file[CHOOSE i \in 1..Len(file) : StartOf(file, i) = o] IN
         IF ~Intact(r)
         THEN [nil |-> TRUE, err |-> "partial record",
               offset |-> o + ReadBytes(r.have, FieldSizes(r.typ), 1)]
         ELSE IF r.off # o
         THEN [nil |-> TRUE, err |-> "partial record", offset |-> o + RecSize(r)]
         ELSE [nil |-> FALSE, err |-> "ok", offset |-> o + RecSize(r), rec |-> Got(r, o)]

\* the closure of LogFile.ReverseIterator without its last seek
ReverseNextNoSeek(file, o) ==
    IF o < 8 THEN [nil |-> TRUE, err |-> "ok", offset |-> o]
    ELSE LET r == file[CHOOSE i \in 1..Len(file) : StartOf(file, i + 1) = o]
             f == ForwardNext(file, r.off) IN
         f

\* the closure of LogFile.ReverseIterator called with the cursor at o: the
\* trailer before o is read, then the record it points to
ReverseNext(file, o) ==
    IF o < 8 THEN [nil |-> TRUE, err |-> "ok", offset |-> o]
    ELSE LET r == file[CHOOSE i \in 1..Len(file) : StartOf(file, i + 1) = o]
             f == ForwardNext(file, r.off) IN
         IF f.err # "ok" THEN f ELSE [f EXCEPT !.offset = r.off]

NoIter == [kind |-> "-", got |-> <<>>, ended |-> FALSE]

\* NewLogFile on an empty file; hist is the records appended that are whole in
\* the file or in the buffer
InitLog ==
    /\ pages = EmptyMap
    /\ logAttached = TRUE
    /\ tdSlots = PageSlots
    /\ numPages = 0
    /\ lastEmptyPage = -1
    /\ disk = <<>>
    /\ logDisk = <<>>
    /\ logBuf = <<>>
    /\ offset = 0
    /\ before = EmptyMap
    /\ last = Ret("New", 0, -1, "ok")
    /\ bpMaxPages = maxPages
    /\ objRid = EmptyMap
    /\ hist = <<>>
    /\ iter = NoIter

notLog == <<tdSlots, numPages, lastEmptyPage, before, bpMaxPages, objRid>>

\* the cursor is at the end of the file and of the buffer
AtEnd == offset = FileBytes(logDisk) + FileBytes(logBuf)

\* LogBegin, LogCommit, LogAbort or LogUpdate of the record r
AppendOp(r) ==
    /\ logAttached
    /\ last.err = "ok"
    /\ iter = NoIter
    /\ AtEnd
    /\ Len(hist) < MaxAppends
    /\ logBuf' = Append(logBuf, LogRec(r, offset))
    /\ offset' = offset + RecSize(r)
    /\ hist' = Append(hist, LogRec(r, offset))
    /\ last' = Ret("Append", r.tid, -1, "ok")
    /\ UNCHANGED <<pages, logAttached, disk, logDisk, iter>>

\* LogFile.Force
ForceLogOp ==
    /\ logAttached
    /\ last.err = "ok"
    /\ iter = NoIter
    /\ logBuf # <<>>
    /\ logDisk' = Force(logDisk, logBuf)
    /\ logBuf' = <<>>
    /\ last' = Ret("Force", 0, -1, "ok")
    /\ UNCHANGED <<pages, logAttached, disk, offset, hist, iter>>

\* seek(0, io.SeekStart), then ForwardIterator()
ForwardIteratorOp ==
    /\ logAttached
    /\ last.err = "ok"
    /\ logDisk' = Force(logDisk, logBuf)
    /\ logBuf' = <<>>
    /\ offset' = 0
    /\ iter' = [kind |-> "forward", got |-> <<>>, ended |-> FALSE]
    /\ last' = Ret("ForwardIterator", 0, -1, "ok")
    /\ UNCHANGED <<pages, logAttached, disk, hist>>

\* ReverseIterator(): seek(0, io.SeekEnd)
ReverseIteratorOp ==
    /\ logAttached
    /\ last.err = "ok"
    /\ logDisk' = Force(logDisk, logBuf)
    /\ logBuf' = <<>>
    /\ offset' = FileBytes(Force(logDisk, logBuf))
    /\ iter' = [kind |-> "reverse", got |-> <<>>, ended |-> FALSE]
    /\ last' = Ret("ReverseIterator", 0, -1, "ok")
    /\ UNCHANGED <<pages, logAttached, disk, hist>>

\* one call of an iterator's closure with the result r
LogPull(kind, r) ==
    /\ logAttached
    /\ last.err = "ok"
    /\ iter.kind = kind
    /\ ~iter.ended \/ last.op # "Pull"
    /\ logDisk' = Force(logDisk, logBuf)
    /\ logBuf' = <<>>
    /\ offset' = r.offset
    /\ iter' = [iter EXCEPT !.got = IF r.nil THEN @ ELSE Append(@, r.rec),
                            !.ended = @ \/ (r.nil /\ r.err = "ok")]
    /\ last' = Ret("Pull", 0, -1, r.err)
    /\ UNCHANGED <<pages, logAttached, disk, hist>>

ForwardPullOp == LogPull("forward", ForwardNext(Force(logDisk, logBuf), offset))

ReversePullOp == LogPull("reverse", ReverseNext(Force(logDisk, logBuf), offset))

\* where a write of the record r can stop short
Cuts(r) == {1, 5, RecSize(r) - 8, RecSize(r) - 1}

\* the process dies in the middle of Force's write: the records of the buffer
\* before the j-th are in the file, and h bytes of the j-th
TornCrashOp(j, h) ==
    /\ logAttached
    /\ last.err = "ok"
    /\ iter = NoIter
    /\ j \in 1..Len(logBuf)
    /\ h \in Cuts(logBuf[j])
    /\ logDisk' = logDisk \o SubSeq(logBuf, 1, j - 1) \o <<[logBuf[j] EXCEPT !.have = h]>>
    /\ logBuf' = <<>>
    /\ offset' = 0
    /\ pages' = EmptyMap
    /\ logAttached' = FALSE
    /\ iter' = NoIter
    /\ hist' = IntactPrefix(logDisk')
    /\ last' = Ret("Crash", 0, -1, "ok")
    /\ UNCHANGED disk

\* the process dies between two calls: the buffer is lost
LogCrashOp ==
    /\ logAttached
    /\ last.err = "ok"
    /\ iter = NoIter
    /\ logBuf' = <<>>
    /\ offset' = 0
    /\ pages' = EmptyMap
    /\ logAttached' = FALSE
    /\ iter' = NoIter
    /\ hist' = logDisk
    /\ last' = Ret("Crash", 0, -1, "ok")
    /\ UNCHANGED <<disk, logDisk>>

\* Recover's reverse pass, by cursor.
\* The reverse loop of Recover on the bytes of the file: st.o is the cursor,
\* st.visited the Offset() of each record the loop body has handled,
\* st.aborted the transactions an Abort record was appended for.

\* one turn of the loop with the cursor left at the end of the file after Force
WalkStepNoRestore(st) ==
    LET r == ReverseNext(st.file, st.o) IN
    IF st.losers = {} \/ r.nil THEN [st EXCEPT !.done = TRUE]
    ELSE IF r.rec.tid \in st.losers /\ r.rec.typ = BeginRecord
    THEN [st EXCEPT !.file = @ \o <<LogRec(Plain(AbortRecord, r.rec.tid), FileBytes(@))>>,
                    !.o = FileBytes(st.file) + RecSize(Plain(AbortRecord, r.rec.tid)),
                    !.losers = @ \ {r.rec.tid},
                    !.visited = Append(@, r.rec.offset),
                    !.aborted = Append(@, r.rec.tid)]
    ELSE [st EXCEPT !.o = r.offset, !.visited = Append(@, r.rec.offset)]

\* one turn of the loop: pull a record; for the Begin of a loser keep the
\* cursor, seek to the end, LogAbort, Force, seek back
WalkStep(st) ==
    LET r == ReverseNext(st.file, st.o) IN
    IF st.losers = {} \/ r.nil THEN [st EXCEPT !.done = TRUE]
    ELSE IF r.rec.tid \in st.losers /\ r.rec.typ = BeginRecord
    THEN [st EXCEPT !.file = @ \o <<LogRec(Plain(AbortRecord, r.rec.tid), FileBytes(@))>>,
                    !.o = r.offset,
                    !.losers = @ \ {r.rec.tid},
                    !.visited = Append(@, r.rec.offset),
                    !.aborted = Append(@, r.rec.tid)]
    ELSE [st EXCEPT !.o = r.offset, !.visited = Append(@, r.rec.offset)]

RECURSIVE ReverseWalk(_)
ReverseWalk(st) == IF st.done THEN st ELSE ReverseWalk(WalkStep(st))

\* the reverse pass of Recover on the file, after the forward pass
RecoverWalk(pgs, dsk, file) ==
    ReverseWalk([file |-> file, o |-> FileBytes(file),
                 losers |-> ForwardPass(file, 1, [losers |-> {}, pages |-> pgs, disk |-> dsk,
                                                  aborts |-> <<>>]).losers,
                 visited |-> <<>>, aborted |-> <<>>, done |-> FALSE])

\* seek(0, io.SeekEnd) left out: the cursor stays at o
SeekEndStays(file, o) == o

\* LogFile.seek(0, io.SeekEnd) with the cursor at o
SeekEnd(file, o) == FileBytes(file)

\* the cursor when Rollback's loop ends: at the Begin record of tid, or at the
\* start of the file
RECURSIVE RollbackCursor(_, _, _)
RollbackCursor(file, o, tid) ==
    LET r == ReverseNext(file, o) IN
    IF r.nil THEN r.offset
    ELSE IF r.rec.tid = tid /\ r.rec.typ = BeginRecord THEN r.offset
    ELSE RollbackCursor(file, r.offset, tid)

\* BufferPool.Rollback(t) on the log file
RollbackLogOp(t) ==
    /\ logAttached
    /\ last.err = "ok"
    /\ iter = NoIter
    /\ LET file == Force(logDisk, logBuf)
           r == RollbackResult(pages, disk, file, t) IN
        /\ pages' = r.pages
        /\ disk' = r.disk
        /\ logDisk' = file
        /\ offset' = SeekEnd(file, RollbackCursor(file, FileBytes(file), t))
    /\ logBuf' = <<>>
    /\ last' = Ret("Rollback", t, -1, "ok")
    /\ UNCHANGED <<logAttached, hist, iter>>

\* BufferPool.Recover on the file: the forward loop ends at the first error of
\* the iterator and Recover returns it
RecoverLog(pgs, dsk, file) ==
    LET recs == IntactPrefix(file)
        fwd == ForwardPass(recs, 1, [losers |-> {}, pages |-> pgs, disk |-> dsk,
                                     aborts |-> <<>>])
        stop == ForwardNext(file, FileBytes(recs)) IN
    IF stop.err = "ok"
    THEN [st |-> ReversePass(recs, Len(recs), fwd), err |-> "ok", offset |-> stop.offset]
    ELSE [st |-> fwd, err |-> stop.err, offset |-> stop.offset]

\* the Abort records Recover appends, each with the cursor at the end
RECURSIVE WithOffsets(_, _)
WithOffsets(recs, o) ==
    IF recs = <<>> THEN <<>>
    ELSE <<LogRec(Head(recs), o)>> \o WithOffsets(Tail(recs), o + RecSize(Head(recs)))

\* Recover(logFile) when the database is started again; every Recover appends
\* an Abort record for each transaction with no Commit, so the file is capped
RecoverLogOp ==
    /\ ~logAttached
    /\ Len(logDisk) <= MaxAppends
    /\ LET r == RecoverLog(pages, disk, logDisk) IN
        /\ pages' = r.st.pages
        /\ disk' = r.st.disk
        /\ logDisk' = logDisk \o WithOffsets(r.st.aborts, FileBytes(logDisk))
        /\ offset' = IF r.err = "ok"
                     THEN SeekEnd(logDisk \o WithOffsets(r.st.aborts, FileBytes(logDisk)),
                                  RecoverWalk(pages, disk, logDisk).o)
                     ELSE r.offset
        /\ last' = Ret("Recover", 0, -1, r.err)
    /\ logAttached' = TRUE
    /\ logBuf' = <<>>
    /\ iter' = NoIter
    /\ hist' = IntactPrefix(logDisk')

NextLog ==
    \/ \E t \in LogTids : AppendOp(Plain(BeginRecord, t)) /\ UNCHANGED notLog
    \/ \E t \in LogTids : AppendOp(Plain(CommitRecord, t)) /\ UNCHANGED notLog
    \/ \E t \in LogTids : AppendOp(Plain(AbortRecord, t)) /\ UNCHANGED notLog
    \/ \E t \in LogTids, b \in LogPages : \E a \in LogPages \ {b} :
          AppendOp(Rec(UpdateRecord, t, 0, toBuffer(b), toBuffer(a))) /\ UNCHANGED notLog
    \/ ForceLogOp /\ UNCHANGED notLog
    \/ ForwardIteratorOp /\ UNCHANGED notLog
    \/ ForwardPullOp /\ UNCHANGED notLog
    \/ ReverseIteratorOp /\ UNCHANGED notLog
    \/ ReversePullOp /\ UNCHANGED notLog
    \/ \E j \in 1..Len(logBuf) : \E h \in Cuts(logBuf[j]) : TornCrashOp(j, h) /\ UNCHANGED notLog
    \/ \E t \in LogTids : RollbackLogOp(t) /\ UNCHANGED notLog
    \/ LogCrashOp /\ UNCHANGED notLog
    \/ RecoverLogOp /\ UNCHANGED notLog

SpecLog == InitLog /\ [][NextLog]_vars

\* ---------------------------------------------------- Project's descriptor
\* NewProjectOp and Project.Descriptor on expression and name lists of any
\* two lengths.  iter is the operator, hist the descriptor returned last.
MaxExprs == 2        \* expressions and output names of a Project

ExprTypes == {"IntType", "StringType"}

Names == {"a", "b"}

SeqsUpTo(S, n) == UNION {[1..k -> S] : k \in 0..n}

\* Project.Descriptor: the error made by fmt.Errorf is dropped; the loop
\* reads p.outputNames[i] for every expression and panics past its end
Descriptor(E, N) ==
    IF Len(N) < Len(E) THEN [err |-> "panic", fields |-> <<>>]
    ELSE [err |-> "ok",
          fields |-> [i \in 1..Len(E) |-> [Fname |-> N[i], Ftype |-> E[i]]]]

\* before NewProjectOp: the lists the caller is about to pass
InitProj ==
    /\ pages = EmptyMap
    /\ logAttached = FALSE
    /\ tdSlots = NumSlots
    /\ numPages = 0
    /\ lastEmptyPage = -1
    /\ disk = <<>>
    /\ logDisk = <<>>
    /\ logBuf = <<>>
    /\ offset = 0
    /\ before = EmptyMap
    /\ last = Ret("-", 0, -1, "ok")
    /\ bpMaxPages = maxPages
    /\ objRid = EmptyMap
    /\ hist = <<>>
    /\ \E E \in SeqsUpTo(ExprTypes, MaxExprs), N \in SeqsUpTo(Names, MaxExprs), d \in BOOLEAN :
          iter = [selectFields |-> E, outputNames |-> N, distinct |-> d]

notProj == <<pages, logAttached, tdSlots, numPages, lastEmptyPage, disk, logDisk, logBuf,
             offset, before, bpMaxPages, objRid, iter>>

\* NewProjectOp(selectFields, outputNames, distinct, child): `return &Project{..}, nil`
NewProjectOpOp ==
    /\ last.op = "-"
    /\ last' = Ret("NewProjectOp", 0, -1, "ok")
    /\ hist' = hist
    /\ UNCHANGED notProj

\* p.Descriptor() on the operator NewProjectOp returned
DescriptorOp ==
    /\ last.op \in {"NewProjectOp", "Descriptor"}
    /\ last.err = "ok"
    /\ LET d == Descriptor(iter.selectFields, iter.outputNames) IN
        /\ last' = Ret("Descriptor", 0, -1, d.err)
        /\ hist' = d.fields
    /\ UNCHANGED notProj

NextProj ==
    \/ NewProjectOpOp
    \/ DescriptorOp

SpecProj == InitProj /\ [][NextProj]_vars

\* ----------------------------------------------------------------- OrderBy
\* An OrderBy over a child with a fixed list of two-field tuples (name, age):
\* Iterator drains the child and sorts, the closure is pulled to the end.
MaxSortLen == 3      \* tuples the child yields
MaxField == 2        \* each field of a tuple is in 1..MaxField

SortTuples == (1..MaxField) \X (1..MaxField)

SortChildren == UNION {[1..n -> SortTuples] : n \in 0..MaxSortLen}

\* the orderBy expressions are the fields themselves
SortKeys == {<<1>>, <<2>>, <<1, 2>>, <<2, 1>>}

\* Tuple.compareField(q, field) on p
compareField(p, q, f) ==
    IF p[f] < q[f] THEN "OrderedLessThan"
    ELSE IF p[f] > q[f] THEN "OrderedGreaterThan"
    ELSE "OrderedEqual"

\* multiSorter.Less(i, j) from key k on (k counted from 1): the loop runs over
\* every key, and the code after it indexes ascending and orderBy one past
\* their end
RECURSIVE Less(_, _, _, _, _)
Less(p, q, orderBy, ascending, k) ==
    IF k > Len(orderBy) THEN "panic"
    ELSE LET cmp == IF ascending[k] THEN compareField(p, q, orderBy[k])
                    ELSE compareField(q, p, orderBy[k]) IN
         IF cmp = "OrderedLessThan" THEN "true"
         ELSE IF cmp = "OrderedGreaterThan" THEN "false"
         ELSE Less(p, q, orderBy, ascending, k + 1)

Swap(data, i, j) == [data EXCEPT ![i] = data[j], ![j] = data[i]]

\* sort.Sort's inner loop for element j: for j > a && Less(j, j-1) { Swap; j-- }
RECURSIVE SinkDown(_, _, _, _)
SinkDown(data, j, orderBy, ascending) ==
    IF j <= 1 THEN [data |-> data, panic |-> FALSE]
    ELSE LET l == Less(data[j], data[j - 1], orderBy, ascending, 1) IN
         IF l = "panic" THEN [data |-> data, panic |-> TRUE]
         ELSE IF l = "false" THEN [data |-> data, panic |-> FALSE]
         ELSE SinkDown(Swap(data, j, j - 1), j - 1, orderBy, ascending)

\* sort.Sort on a slice of fewer than 12 elements: insertion sort from i on
RECURSIVE InsertionSort(_, _, _, _)
InsertionSort(data, i, orderBy, ascending) ==
    IF i > Len(data) THEN [data |-> data, panic |-> FALSE]
    ELSE LET r == SinkDown(data, i, orderBy, ascending) IN
         IF r.panic THEN r
         ELSE InsertionSort(r.data, i + 1, orderBy, ascending)

\* multiSorter.Sort
Sort(data, orderBy, ascending) == InsertionSort(data, 2, orderBy, ascending)

\* NewOrderBy(orderByFields, child, ascending)
InitSort ==
    /\ pages = EmptyMap
    /\ logAttached = FALSE
    /\ tdSlots = NumSlots
    /\ numPages = 0
    /\ lastEmptyPage = -1
    /\ disk = <<>>
    /\ logDisk = <<>>
    /\ logBuf = <<>>
    /\ offset = 0
    /\ before = EmptyMap
    /\ last = Ret("NewOrderBy", 0, -1, "ok")
    /\ bpMaxPages = maxPages
    /\ objRid = EmptyMap
    /\ hist = <<>>
    /\ \E c \in SortChildren, ks \in SortKeys :
         \E asc \in [1..Len(ks) -> BOOLEAN] :
            iter = [child |-> c, orderBy |-> ks, ascending |-> asc, sorted |-> <<>>,
                    i |-> 1, state |-> "new"]

notSort == <<pages, logAttached, tdSlots, numPages, lastEmptyPage, disk, logDisk, logBuf, offset,
            before, bpMaxPages, objRid>>

\* OrderBy.Iterator(tid): the child is drained and sorted; the closure comes
\* back together with the error "order_by_op.Iterator not implemented"
SortIteratorOp ==
    /\ iter.state = "new"
    /\ LET r == Sort(iter.child, iter.orderBy, iter.ascending) IN
        /\ iter' = [iter EXCEPT !.sorted = r.data,
                                !.state = IF r.panic THEN "panic" ELSE "open"]
        /\ last' = Ret("Iterator", 1, -1, IF r.panic THEN "panic" ELSE "not implemented")
    /\ hist' = hist

\* one call of the closure
SortPullOp ==
    /\ iter.state = "open"
    /\ IF iter.i > Len(iter.sorted)
       THEN /\ iter' = [iter EXCEPT !.state = "end"]
            /\ hist' = hist
       ELSE /\ iter' = [iter EXCEPT !.i = @ + 1]
            /\ hist' = Append(hist, iter.sorted[iter.i])
    /\ last' = Ret("Pull", 1, -1, "ok")

NextSort ==
    \/ SortIteratorOp /\ UNCHANGED notSort
    \/ SortPullOp /\ UNCHANGED notSort

SpecSort == InitSort /\ [][NextSort]_vars

\* ================================================================ claims
Cached == DOMAIN pages

DirtiedBy(t) == {p \in Cached : pages[p].dirty /\ pages[p].dirtyTid = t}

OnDisk == 0..(Len(disk) - 1)

UpdatesOn(recs, p) == {i \in 1..Len(recs) : recs[i].typ = UpdateRecord /\ recs[i].pg = p}

Min(S) == CHOOSE x \in S : \A y \in S : x <= y

Max(S) == CHOOSE x \in S : \A y \in S : x >= y

\* what a page must hold after recovery: the after-image of the last update by
\* a committed transaction, or, when only losers and aborted transactions
\* changed it, the image it had before the first of their updates
Expected(recs, p) ==
    LET U == UpdatesOn(recs, p)
        W == {i \in U : InLog(recs, CommitRecord, recs[i].tid)} IN
    IF W # {} THEN recs[Max(W)].after ELSE recs[Min(U)].before

\* C1: after a crash, Recover leaves every update of a committed transaction on
\* disk, no update of a loser on disk, and an Abort record for every loser.
C1_RecoverCorrect ==
    last.op = "Recover" =>
        /\ \A p \in OnDisk : UpdatesOn(logDisk, p) # {} => disk[p + 1] = Expected(logDisk, p)
        /\ \A t \in Tids : InLog(logDisk, BeginRecord, t) =>
               InLog(logDisk, CommitRecord, t) \/ InLog(logDisk, AbortRecord, t)

\* C2: once a first Recover has undone loser t1 and appended Abort(t1), a later
\* transaction t2 that updates the same page and commits survives the next
\* crash: the second Recover leaves t2's after-image on disk.
C2_CommitSurvivesSecondCrash ==
    last.op = "Recover" =>
        \A p \in OnDisk : \A i, j, k, l \in 1..Len(logDisk) :
            (/\ i < j /\ j < k /\ k < l
             /\ logDisk[i].typ = UpdateRecord /\ logDisk[i].pg = p
             /\ logDisk[j].typ = AbortRecord /\ logDisk[j].tid = logDisk[i].tid
             /\ k = Max(UpdatesOn(logDisk, p))
             /\ logDisk[k].tid # logDisk[i].tid
             /\ logDisk[l].typ = CommitRecord /\ logDisk[l].tid = logDisk[k].tid)
            => disk[p + 1] = logDisk[k].after

\* C3: Recover is idempotent on disk: running it again on the log it left,
\* with nothing in between, leaves every page of the data file as it is.
C3_RecoverIdempotent ==
    last.op = "Recover" => RecoverResult(pages, disk, logDisk).disk = disk

\* a recovery that had a loser's update to undo
C3_Witness ==
    /\ last.op = "Recover"
    /\ \E i \in 1..Len(logDisk) :
        /\ logDisk[i].typ = UpdateRecord
        /\ logDisk[i].before # logDisk[i].after
        /\ ~InLog(logDisk, CommitRecord, logDisk[i].tid)
        /\ disk[logDisk[i].pg + 1] = logDisk[i].before

\* C4: a changed page image reaches the data file only after an Update record
\* that covers it has been appended to the log and forced.  (Rollback forces
\* the log before it reads it, so the records it forces count for its writes.)
C4_WriteAhead ==
    [][logAttached =>
        \A p \in OnDisk : disk'[p + 1] # disk[p + 1] =>
            \E i \in UpdatesOn(logDisk', p) :
                /\ i <= Len(AllRecs)
                /\ logDisk'[i].after = disk'[p + 1] \/ logDisk'[i].before = disk'[p + 1]]_vars

\* C5: when CommitTransaction(tid) returns, no page dirtied by tid is still
\* dirty (each was written to the data file), and with a log attached the log
\* ends with a forced Commit(tid) record.
C5_CommitFlushes ==
    last.op = "CommitTransaction" =>
        /\ DirtiedBy(last.tid) = {}
        /\ logAttached =>
            /\ logBuf = <<>>
            /\ logDisk # <<>>
            /\ logDisk[Len(logDisk)] = Plain(CommitRecord, last.tid)

\* C6: after AbortTransaction(tid) without a log, no page dirtied by tid is
\* left in the cache, so a scan reads the pages as they are on disk.
C6_AbortDiscards ==
    (last.op = "AbortTransaction" /\ ~logAttached) => DirtiedBy(last.tid) = {}

\* the pages Rollback(t) is about: those t updated since its Begin record, with
\* no update by another transaction after t's first
LastBegin(recs, t) ==
    Max({0} \cup {i \in 1..Len(recs) : recs[i].typ = BeginRecord /\ recs[i].tid = t})

OwnUpdates(recs, t, p) ==
    {i \in UpdatesOn(recs, p) : recs[i].tid = t /\ i > LastBegin(recs, t)}

RolledPages(recs, t) ==
    {p \in OnDisk :
        /\ LastBegin(recs, t) > 0
        /\ OwnUpdates(recs, t, p) # {}
        /\ \A i \in UpdatesOn(recs, p) :
              i > Min(OwnUpdates(recs, t, p)) => recs[i].tid = t}

EarliestBefore(recs, t, p) == recs[Min(OwnUpdates(recs, t, p))].before

\* C7 as stated: after Rollback(tid) every page tid updated holds on disk the
\* before-image of tid's earliest update, and a GetPage of it returns that image.
C7_RollbackThenGetPage ==
    (last.op = "Rollback" /\ last.err = "ok") =>
        \A p \in RolledPages(logDisk, last.tid) :
            /\ disk[p + 1] = EarliestBefore(logDisk, last.tid, p)
            /\ \A g \in GetPage(pages, disk, p) :
                /\ g.err = "ok"
                /\ toBuffer(g.pages[p]) = EarliestBefore(logDisk, last.tid, p)

\* C7 amended: after Rollback(tid) every page tid updated holds on disk the
\* before-image of tid's earliest update and is no longer cached, and a GetPage
\* of it that does not fail with BufferPoolFull returns that image.
C7_RollbackRestores ==
    (last.op = "Rollback" /\ last.err = "ok") =>
        \A p \in RolledPages(logDisk, last.tid) :
            /\ disk[p + 1] = EarliestBefore(logDisk, last.tid, p)
            /\ p \notin Cached
            /\ \A g \in GetPage(pages, disk, p) :
                \/ g.err = "BufferPoolFull"
                \/ /\ g.err = "ok"
                   /\ toBuffer(g.pages[p]) = EarliestBefore(logDisk, last.tid, p)
                   /\ ~g.pages[p].dirty

\* a rollback that undid a change, after which GetPage can read the page back
C7_Witness ==
    /\ last.op = "Rollback" /\ last.err = "ok"
    /\ \E p \in RolledPages(logDisk, last.tid) :
        /\ \E i \in OwnUpdates(logDisk, last.tid, p) : logDisk[i].after # logDisk[i].before
        /\ \E g \in GetPage(pages, disk, p) : g.err = "ok"

\* C8: the buffer pool never caches more pages than its capacity.
C8_CacheWithinCapacity == Cardinality(Cached) <= maxPages

\* a GetPage that made room in a full pool and cached the page it was asked for
C8_Witness ==
    /\ last.op = "GetPage" /\ last.err = "ok"
    /\ last.pg \in Cached
    /\ Cardinality(Cached) = maxPages
    /\ Len(disk) > maxPages

\* C9: GetPage (called directly or by insertTuple and deleteTuple) never takes a
\* dirty page out of the cache; it evicts only when the page asked for is
\* absent and the pool is full; when every cached page is dirty it fails with
\* BufferPoolFull and leaves the cache as it was.
C9_NeverEvictsDirty ==
    [][/\ last'.op \in {"GetPage", "-"} =>
            \A p \in Cached : pages[p].dirty => p \in DOMAIN pages'
       /\ last'.op = "GetPage" =>
            /\ Cached \ DOMAIN pages' # {} =>
                  last'.pg \notin Cached /\ Cardinality(Cached) >= maxPages
            /\ (/\ last'.pg \notin Cached
                /\ Cardinality(Cached) >= maxPages
                /\ \A p \in Cached : pages[p].dirty) => last'.err = "BufferPoolFull"
            /\ last'.err = "BufferPoolFull" =>
                  pages' = pages /\ \A p \in Cached : pages[p].dirty]_vars

\* a GetPage that failed because the one cached page is dirty
C9_Witness ==
    /\ last.op = "GetPage" /\ last.err = "BufferPoolFull"
    /\ \E p \in Cached : pages[p].dirty

\* C10: after GetPage(p) failed with BufferPoolFull, CommitTransaction or
\* AbortTransaction for the transaction that dirtied the cached pages makes
\* the next GetPage(p) of a page of the file succeed.
C10_FullThenCommitRecovers ==
    (/\ last.op \in {"CommitTransaction", "AbortTransaction"}
     /\ last.pg \in OnDisk
     /\ last.pg \notin Cached
     /\ \A p \in Cached : pages[p].dirty => pages[p].dirtyTid = last.tid)
    => \A g \in GetPage(pages, disk, last.pg) : g.err = "ok"

\* C14: a heap page written to bytes and read back has the same numSlots and
\* numUsed and the same tuples in the same order, placed in slots 0..numUsed-1.
C14_PageRoundTrip ==
    \A p \in DOMAIN pages :
        LET r == initFromBuffer(toBuffer(pages[p])) IN
        /\ r.numSlots = pages[p].numSlots
        /\ r.numUsed = pages[p].numUsed
        /\ Dense(r, 0) = Dense(pages[p], 0)
        /\ Occupied(r) = 0..(r.numUsed - 1)

\* a page with an empty slot below an occupied one, so that reading it back
\* moves a tuple
C14_Witness ==
    \E p \in DOMAIN pages :
        /\ pages[p].tuples[0] = Nil
        /\ pages[p].tuples[1] # Nil
        /\ initFromBuffer(toBuffer(pages[p])).tuples[0] # Nil

\* C15: on every heap page, after successful and failing insertTuple and
\* deleteTuple calls, numUsed is the number of occupied slots and lies in
\* 0..numSlots.
C15_NumUsedCounts ==
    \A p \in DOMAIN pages :
        /\ pages[p].numUsed = Cardinality(Occupied(pages[p]))
        /\ 0 <= pages[p].numUsed
        /\ pages[p].numUsed <= pages[p].numSlots

\* an insertTuple that failed on a full page, after a delete had succeeded on
\* the other page
C15_Witness ==
    /\ last.op = "insertTuple" /\ last.err = "PageFull"
    /\ pages[last.pg].numUsed = PageSlots
    /\ \E p \in DOMAIN pages : p # last.pg /\ Occupied(pages[p]) = {1}

\* C16: every occupied slot i of page p holds a tuple whose Rid is {p, i}, also
\* after the same tuple object was inserted more than once, after deletes and
\* after reloads from bytes.
C16_RidIsSlot ==
    \A p \in DOMAIN pages : \A i \in Occupied(pages[p]) :
        RidAt(pages, objRid, p, i) = <<p, i>>

\* C11: after insertTuple calls that all succeeded on a fresh heap file, a scan
\* with HeapFile.Iterator succeeds and yields exactly the multiset of the
\* inserted tuples, page spills and duplicates included.
C11_ScanYieldsInserted ==
    (hist.pure /\ last.op = "Iterator") =>
        /\ last.err = "ok"
        /\ OutBag(last.out) = hist.ins

\* a scan over more than one page that yields the same fields twice
C11_Witness ==
    /\ hist.pure /\ last.op = "Iterator" /\ last.err = "ok"
    /\ numPages >= 2
    /\ \E v \in Vals : hist.ins[v] >= 2 /\ OutBag(last.out)[v] >= 2
    /\ \E v \in Vals, w \in Vals : v # w /\ hist.ins[v] >= 1 /\ hist.ins[w] >= 1

\* C17: after n > 0 inserts that all succeeded on a fresh file with k slots per
\* page, the file has ceil(n / k) pages, every page but the last is full, and
\* lastEmptyPage is the last page.
C17_PageSpill ==
    LET n == BagSize(hist.ins) IN
    (hist.pure /\ n > 0) =>
        /\ numPages = (n + tdSlots - 1) \div tdSlots
        /\ \A p \in 0..(numPages - 2) : getNumEmptySlots(Content(pages, disk, p)) = 0
        /\ Content(pages, disk, numPages - 1).numUsed = n - (numPages - 1) * tdSlots
        /\ lastEmptyPage = numPages - 1

\* seven inserts with three slots per page: three pages, the hint is page 2
C17_Witness ==
    /\ hist.pure /\ BagSize(hist.ins) = 7 /\ tdSlots = 3
    /\ numPages = 3 /\ lastEmptyPage = 2
    /\ last.op = "Insert" /\ last.err = "ok"

\* C12: in any reachable state, deleteTuple(t) of a tuple t that a scan has
\* yielded succeeds, the file then holds the previous multiset minus that one
\* occurrence of t, and a second deleteTuple(t) fails with TupleNotFound.
\* Stated for the yielded tuples whose rid is the slot they were read from.
C12_DeleteYielded ==
    [][(last.op = "Iterator" /\ last'.op = "Delete" /\ last'.rid = last'.from) =>
          /\ last'.err = "ok"
          /\ FileBag(pages', disk', numPages') =
                 [FileBag(pages, disk, numPages) EXCEPT ![last'.fields] = @ - 1]
          /\ \A r \in deleteTuple(pages', disk', numPages', lastEmptyPage', 1,
                                   last'.rid[1], last'.rid[2]) : r.err = "TupleNotFound"]_vars

\* C13: a scan with HeapFile.Iterator that ends without an error has yielded
\* every occupied slot of every page exactly once, in ascending (page, slot)
\* order, each tuple with the fields of its slot and with the rid {page, slot}
\* it was read from.
C13_ScanInSlotOrder ==
    (last.op = "Iterator" /\ last.err = "ok") =>
        LET out == last.out IN
        /\ DOMAIN last.read = 0..(numPages - 1)
        /\ {<<out[k].pg, out[k].slot>> : k \in 1..Len(out)} =
              {x \in (0..(numPages - 1)) \X (0..(tdSlots - 1)) :
                  x[2] \in Occupied(last.read[x[1]])}
        /\ \A j \in 1..Len(out), k \in 1..Len(out) :
              j < k => \/ out[j].pg < out[k].pg
                       \/ out[j].pg = out[k].pg /\ out[j].slot < out[k].slot
        /\ \A k \in 1..Len(out) :
              /\ out[k].fields = last.read[out[k].pg].tuples[out[k].slot].fields
              /\ out[k].rid = <<out[k].pg, out[k].slot>>

\* C18: the first pull on an InsertOp or DeleteOp iterator that succeeds has
\* drained the child, performed one insert (delete) per child tuple and
\* returns {count: N}, N the number of mutations; every later pull returns
\* end-of-stream (no tuple) and performs no mutation.
C18_CountThenEnd ==
    (last.op = "Pull" /\ iter.kind \in {"Insert", "Delete"} /\ ~hist.errd) =>
        IF hist.pulls = 1
        THEN /\ last.out = TupOut(last.muts)
             /\ last.muts = Len(iter.child)
        ELSE /\ last.out = NilOut
             /\ last.muts = 0

\* C19: once a pull on an operator's iterator has returned an error, no later
\* pull on that iterator yields a tuple or performs an insert or delete.
C19_ErrorTerminates ==
    [][(last'.op = "Pull" /\ hist.errd) =>
          /\ last'.out.nil
          /\ last'.muts = 0]_vars

\* how many times the tuple t occurs in the list
Occurs(list, t) == Cardinality({k \in 1..Len(list) : list[k] = t})

\* p comes strictly before q in the lexicographic order of the keys, key k
\* compared with the operands swapped when ascending[k] is false
LexBefore(p, q, orderBy, ascending) ==
    \E k \in 1..Len(orderBy) :
        /\ \A j \in 1..(k - 1) : p[orderBy[j]] = q[orderBy[j]]
        /\ IF ascending[k] THEN p[orderBy[k]] < q[orderBy[k]]
           ELSE q[orderBy[k]] < p[orderBy[k]]

\* C20: for any child stream and any key list with per-key directions, the
\* OrderBy iterator can be taken and pulled to the end, and the tuples pulled
\* are a permutation of the child's, in lexicographic order of the keys.
C20_OrderByOrders ==
    /\ iter.state # "panic"
    /\ iter.state = "end" =>
          /\ \A t \in SortTuples : Occurs(hist, t) = Occurs(iter.child, t)
          /\ \A k \in 1..(Len(hist) - 1) :
                ~LexBefore(hist[k + 1], hist[k], iter.orderBy, iter.ascending)

\* p and q compare equal on every key
TiedOn(p, q, orderBy) == \A k \in 1..Len(orderBy) : p[orderBy[k]] = q[orderBy[k]]

\* the tuples of the list that tie with x, in the list's order
TiedWith(list, x, orderBy) == SelectSeq(list, LAMBDA t : TiedOn(t, x, orderBy))

\* C21: OrderBy is stable: child tuples that compare equal on every key are
\* emitted in the order in which the child produced them, and comparing such
\* tuples does not fail.
C21_OrderByStable ==
    /\ (\E i \in 1..Len(iter.child), j \in 1..Len(iter.child) :
            i # j /\ TiedOn(iter.child[i], iter.child[j], iter.orderBy))
          => iter.state # "panic"
    /\ iter.state = "end" =>
          \A x \in SortTuples :
              TiedWith(hist, x, iter.orderBy) = TiedWith(iter.child, x, iter.orderBy)

\* the child's tuples projected on the select list
Projected(child, sel) == [k \in 1..Len(child) |-> project(child[k].fields, sel)]

\* the first occurrences of the list's elements, from position k on
RECURSIVE FirstOccurrences(_, _)
FirstOccurrences(list, k) ==
    IF k > Len(list) THEN <<>>
    ELSE (IF \E j \in 1..(k - 1) : list[j] = list[k] THEN <<>> ELSE <<list[k]>>)
         \o FirstOccurrences(list, k + 1)

\* the field vectors of the tuples pulled so far
OutVals == [k \in 1..Len(hist.out) |-> hist.out[k].val]

IsPrefix(a, b) == Len(a) <= Len(b) /\ \A k \in 1..Len(a) : a[k] = b[k]

\* C22: with distinct set, the Project iterator yields each distinct projected
\* field vector exactly once, in the order of its first occurrence in the
\* child's stream.
C22_DistinctFirstSeen ==
    (iter.kind = "Project" /\ iter.distinct) =>
        LET want == FirstOccurrences(Projected(iter.child, iter.select), 1) IN
        /\ IsPrefix(OutVals, want)
        /\ hist.ends >= 1 => OutVals = want

\* a distinct projection pulled to its end over a child whose third tuple
\* projects to the same vector as its first, the second to another one
C22_Witness ==
    /\ iter.kind = "Project" /\ iter.distinct /\ hist.ends >= 1
    /\ Len(iter.child) = 3
    /\ LET pr == Projected(iter.child, iter.select) IN
         pr[1] = pr[3] /\ pr[1] # pr[2] /\ iter.child[1] # iter.child[3]
    /\ Len(OutVals) = 2

\* C23: with distinct not set, the Project iterator emits one projected tuple
\* per child tuple, in child order, duplicates included.
C23_PlainKeepsDuplicates ==
    (iter.kind = "Project" /\ ~iter.distinct) =>
        LET want == Projected(iter.child, iter.select) IN
        /\ IsPrefix(OutVals, want)
        /\ hist.ends >= 1 => OutVals = want

\* C24: for a bound L >= 0 and a child of n tuples, the Limit iterator emits
\* the first min(L, n) child tuples in child order and then end-of-stream on
\* every later pull.
C24_LimitFirstL ==
    iter.kind = "Limit" =>
        LET m == IF iter.limit < Len(iter.child) THEN iter.limit ELSE Len(iter.child)
            want == [k \in 1..m |-> SameOut(iter.child[k])] IN
        /\ IsPrefix(hist.out, want)
        /\ hist.ends >= 1 => hist.out = want
        /\ (hist.ends >= 1 /\ last.op = "Pull") => hist.pulls = m + hist.ends

\* a limit below the child's length, pulled twice after the first
\* end-of-stream
C24_Witness ==
    /\ iter.kind = "Limit" /\ iter.limit = 2 /\ Len(iter.child) = 3
    /\ Len(hist.out) = 2 /\ hist.ends = 3

\* C25: the Filter iterator emits exactly the child tuples for which
\* `left op right` is true, in child order and unchanged (fields and rid), and
\* signals end-of-stream when the child does.
C25_FilterKeepsMatching ==
    iter.kind = "Filter" =>
        LET keep == SelectSeq(iter.child,
                              LAMBDA x : EvalPred(x.fields, FilterConst, iter.pred))
            want == [k \in 1..Len(keep) |-> SameOut(keep[k])] IN
        /\ IsPrefix(hist.out, want)
        /\ hist.ends >= 1 <=> (hist.pulls > 0 /\ iter.pos > Len(iter.child) /\ last.out.nil)
        /\ hist.ends >= 1 => hist.out = want

\* a filter pulled to its end over a child whose second tuple fails the
\* predicate, the first and third pass
C25_Witness ==
    /\ iter.kind = "Filter" /\ hist.ends >= 1 /\ Len(iter.child) = 3
    /\ EvalPred(iter.child[1].fields, FilterConst, iter.pred)
    /\ ~EvalPred(iter.child[2].fields, FilterConst, iter.pred)
    /\ EvalPred(iter.child[3].fields, FilterConst, iter.pred)
    /\ Len(hist.out) = 2

\* C26: when the log ends with a torn record, Recover treats the last whole
\* record as the end of the log: it returns success and leaves the data file
\* as REDO and UNDO over the whole records leave it.
C26_TornTailRecovers ==
    [][(last'.op = "Recover" /\ ~WellFormed(logDisk))
       => (/\ last'.err = "ok"
           /\ disk' = RecoverResult(pages, disk, IntactPrefix(logDisk)).disk)]_vars

\* what the caller expects for the appended record h
Want(h) == [typ |-> h.typ, tid |-> h.tid, pg |-> h.pg,
            before |-> h.before, after |-> h.after, offset |-> h.off]

\* the record x an iterator returned, its pages as images
Seen(x) == [typ |-> x.typ, tid |-> x.tid, pg |-> x.pg,
            before |-> toBuffer(x.before), after |-> toBuffer(x.after),
            offset |-> x.offset]

\* C27: after appends made with the cursor at the end of the file, a seek to 0
\* and the forward iterator yield the appended records in order (type, tid,
\* before and after page), each with Offset() equal to its start offset and to
\* its stored trailer, without an error, and nil only after the last of them.
C27_ForwardRoundTrip ==
    iter.kind = "forward" =>
        /\ last.err = "ok"
        /\ Len(iter.got) <= Len(hist)
        /\ \A i \in 1..Len(iter.got) :
              /\ Seen(iter.got[i]) = Want(hist[i])
              /\ iter.got[i].offset = StartOf(hist, i)
        /\ iter.ended => Len(iter.got) = Len(hist)
        /\ offset = StartOf(hist, Len(iter.got) + 1)

C27_Witness ==
    /\ iter.kind = "forward"
    /\ iter.ended
    /\ Len(iter.got) = MaxAppends
    /\ \E i \in 1..Len(iter.got) : iter.got[i].typ = UpdateRecord

\* C28: on a well-formed log the reverse iterator yields the records of the
\* forward iteration in reverse order, one per pull, then nil, and after each
\* pull the cursor is at the start offset of the record just returned.
C28_ReverseMirrorsForward ==
    (iter.kind = "reverse" /\ WellFormed(hist)) =>
        /\ last.err = "ok"
        /\ Len(iter.got) <= Len(hist)
        /\ \A i \in 1..Len(iter.got) :
              Seen(iter.got[i]) = Want(hist[Len(hist) + 1 - i])
        /\ iter.ended => Len(iter.got) = Len(hist)
        /\ iter.got # <<>> => offset = iter.got[Len(iter.got)].offset

C28_Witness ==
    /\ iter.kind = "reverse"
    /\ iter.ended
    /\ Len(iter.got) = MaxAppends
    /\ iter.got[1].typ = UpdateRecord
    /\ iter.got[2].typ # UpdateRecord

\* C29: a failed page flush is never hidden: whenever a flushPage call made
\* during commit, FlushAllPages or Rollback fails, the operation reports the
\* failure to its caller.
C29_FlushFailureReported ==
    [][(last'.op \in {"CommitTransaction", "FlushAllPages", "Rollback"} /\ hist'.failed)
       => last'.err # "ok"]_vars

\* C30: BeginTransaction(tid) returns an error when tid is already active
\* (begun, not yet committed or aborted) and succeeds otherwise.
C30_BeginRejectsActive ==
    [][last'.op = "BeginTransaction"
       => ((last'.err # "ok") <=> (last'.tid \in hist.active))]_vars

\* C31: describing a Project whose expression list and output-name list have
\* different lengths produces a descriptor error: no descriptor is returned
\* and the call does not crash.
C31_MismatchIsError ==
    [][(last'.op = "Descriptor" /\ Len(iter.selectFields) # Len(iter.outputNames))
       => last'.err \notin {"ok", "panic"}]_vars

\* the transactions with a Begin record and no later Commit or Abort record
Unfinished(recs) ==
    {t \in Tids : \E i \in 1..Len(recs) :
        /\ recs[i].typ = BeginRecord /\ recs[i].tid = t
        /\ \A j \in (i + 1)..Len(recs) :
              ~(recs[j].tid = t /\ recs[j].typ \in {CommitRecord, AbortRecord})}

\* C32: at the end of Recover's forward pass the losers are exactly the
\* transactions with a Begin record and no later Commit or Abort record, so
\* the reverse pass appends an Abort record for no other transaction.
C32_LosersAreUnfinished ==
    [][last'.op = "Recover"
       => LET recs == Force(logDisk, logBuf)
              fwd == ForwardPass(recs, 1, [losers |-> {}, pages |-> pages, disk |-> disk,
                                           aborts |-> <<>>]) IN
          /\ fwd.losers = Unfinished(recs)
          /\ \A i \in (Len(recs) + 1)..Len(logDisk') : logDisk'[i].tid \in Unfinished(recs)]_vars

\* C33: Recover terminates on a well-formed log; its reverse pass appends one
\* Abort record at the end of the file for each loser whose Begin it reaches
\* and goes on with the record before that Begin: the records it handles are
\* the records of the file from the last one downwards, none skipped, none
\* twice, none of them an appended Abort record.
C33_ReversePassWalk ==
    [][(last'.op = "Recover" /\ WellFormed(logDisk))
       => LET w == RecoverWalk(pages, disk, logDisk) IN
          /\ last'.err = "ok"
          /\ logDisk' = w.file
          /\ Len(w.visited) <= Len(logDisk)
          /\ \A i \in 1..Len(w.visited) : w.visited[i] = StartOf(logDisk, Len(logDisk) + 1 - i)
          /\ \A i, j \in 1..Len(w.aborted) : w.aborted[i] = w.aborted[j] => i = j
          /\ \A i \in 1..Len(w.aborted) :
                \E k \in 1..Len(w.visited) :
                    LET r == logDisk[Len(logDisk) + 1 - k] IN
                    r.typ = BeginRecord /\ r.tid = w.aborted[i]
          /\ Len(w.file) = Len(logDisk) + Len(w.aborted)]_vars

\* Recover has appended an Abort record for a Begin that is not the last
\* record of the log
C33_Witness ==
    /\ last.op = "Recover"
    /\ last.err = "ok"
    /\ Len(logDisk) > MaxAppends
    /\ logDisk[MaxAppends].typ # BeginRecord
    /\ logDisk[MaxAppends - 1].typ = BeginRecord
    /\ logDisk[MaxAppends + 1].tid = logDisk[MaxAppends - 1].tid

\* the pages named in Update records of t after the last Begin record of t
UndonePages(recs, t) ==
    {recs[i].pg : i \in {k \in 1..Len(recs) :
        /\ recs[k].typ = UpdateRecord /\ recs[k].tid = t
        /\ \A j \in (k + 1)..Len(recs) : ~(recs[j].typ = BeginRecord /\ recs[j].tid = t)}}

\* C34: Rollback(tid) writes to the data file and takes out of the cache only
\* pages named in Update records of tid between the log tail and tid's Begin
\* record: every other page keeps its image on disk and its place in the cache.
C34_RollbackFrame ==
    [][(last'.op = "Rollback" /\ last'.err = "ok")
       => LET T == UndonePages(Force(logDisk, logBuf), last'.tid) IN
          /\ Len(disk') = Len(disk)
          /\ \A p \in PageNos \ T :
                /\ p < Len(disk) => disk'[p + 1] = disk[p + 1]
                /\ p \in DOMAIN pages => (p \in DOMAIN pages' /\ pages'[p] = pages[p])
                /\ p \in DOMAIN pages' => p \in DOMAIN pages]_vars

\* a Rollback that undid a page while the page of another transaction's
\* Update record stayed in the cache
C34_Witness ==
    /\ last.op = "Rollback" /\ last.err = "ok"
    /\ UndonePages(logDisk, last.tid) # {}
    /\ \E i \in 1..Len(logDisk) :
          /\ logDisk[i].typ = UpdateRecord
          /\ logDisk[i].tid # last.tid
          /\ logDisk[i].pg \notin UndonePages(logDisk, last.tid)
          /\ logDisk[i].pg \in DOMAIN pages

\* C35: whenever Recover or Rollback returns successfully the log cursor is
\* at the length of the log file with nothing left in the buffer, so the next
\* append is made at the end of the file.
C35_CursorAtEnd ==
    (last.op \in {"Recover", "Rollback"} /\ last.err = "ok")
        => (offset = FileBytes(logDisk) /\ logBuf = <<>> /\ AtEnd)

\* a Rollback whose loop stopped at a Begin record inside the file
C35_Witness ==
    /\ last.op = "Rollback" /\ last.err = "ok"
    /\ Len(logDisk) = MaxAppends
    /\ logDisk[2].typ = BeginRecord /\ logDisk[2].tid = last.tid
    /\ offset = FileBytes(logDisk)

\* C36: heapPage.insertTuple puts the tuple in the lowest empty slot, sets the
\* tuple's rid to that slot and adds one to numUsed; it fails with PageFull
\* exactly when numUsed = numSlots, and then the page is unchanged.
C36_PageInsertLowestSlot ==
    [][last'.op = "insertTuple"
       => LET h == pages[last'.pg]
              g == pages'[last'.pg] IN
          IF h.numUsed = h.numSlots
          THEN last'.err = "PageFull" /\ g = h /\ objRid' = objRid
          ELSE /\ last'.err = "ok"
               /\ g.numUsed = h.numUsed + 1
               /\ \E s \in 0..(h.numSlots - 1) :
                     /\ h.tuples[s] = Nil
                     /\ \A j \in 0..(s - 1) : h.tuples[j] # Nil
                     /\ g.tuples[s] # Nil
                     /\ objRid'[g.tuples[s].obj] = <<last'.pg, s>>
                     /\ \A j \in 0..(h.numSlots - 1) \ {s} : g.tuples[j] = h.tuples[j]]_vars

\* an insertTuple that took the last empty slot of its page
C36_Witness ==
    /\ last.op = "insertTuple" /\ last.err = "ok"
    /\ pages[last.pg].numUsed = pages[last.pg].numSlots
    /\ \E o \in DOMAIN objRid : objRid[o] = <<last.pg, 0>> /\ pages[last.pg].tuples[0].obj # o

\* C37: in every reachable state no page of the file below the empty-page
\* hint has a free slot, so a probe that starts at the hint misses no free
\* slot and a new page is allocated only when every page is full.
C37_NoFreeSlotBelowHint ==
    \A p \in 0..(numPages - 1) :
        p < lastEmptyPage => getNumEmptySlots(Content(pages, disk, p)) = 0

\* C38: a HeapFile.deleteTuple that fails with TupleNotFound leaves the heap
\* file and the buffer pool as they were: no tuple is removed, numUsed is
\* unchanged and no page's dirty flag changes.
C38_FailedDeleteFrame ==
    [][(last'.op = "DeleteRid" /\ last'.err = "TupleNotFound")
       => /\ disk' = disk
          /\ numPages' = numPages
          /\ lastEmptyPage' = lastEmptyPage
          /\ \A q \in DOMAIN pages' :
                LET c == Content(pages, disk, q) IN
                /\ pages'[q].tuples = c.tuples
                /\ pages'[q].numUsed = c.numUsed
                /\ pages'[q].dirty = c.dirty]_vars

\* C39: over its whole lifetime the Limit iterator takes at most L tuples from
\* its child: once L tuples are out (at once when L = 0) a pull returns
\* end-of-stream and leaves the child iterator where it was.
C39_LimitPullsAtMostL ==
    [][(iter.kind = "Limit" /\ last'.op = "Pull")
       => /\ iter'.pos - 1 <= iter.limit
          /\ iter.cnt = iter.limit => (iter'.pos = iter.pos /\ last'.out.nil /\ last'.err = "ok")]_vars

\* C40: OrderBy.Iterator over a child whose Iterator and whose pulls all
\* succeed returns a nil error.
C40_IteratorReturnsNoError == last.op = "Iterator" => last.err = "ok"

====
